---- MODULE Spec2Model ----
(***************************************************************************)
(* Model of CryptoManager (crypto.js): passphrase-derived key, localStorage *)
(* salt / validation probe / vault marker, and the asynchronous             *)
(* initialize / createUserVault calls with their suspension points at the   *)
(* Web Crypto promises.                                                     *)
(*                                                                         *)
(* Idealisations: PBKDF2 is an injective function of (passphrase, salt);   *)
(* AES-GCM is a stored box that opens only under the sealing key.           *)
(* crypto.getRandomValues draws from a small pool of byte arrays.           *)
(* localStorage.setItem may throw (quota), and a Web Crypto promise may     *)
(* reject; both are caught by the handlers' try/catch.                      *)
(*                                                                         *)
(* A step runs from one resumption to the next await on a Web Crypto        *)
(* promise: `await this.initialize(...)` and `await this.encrypt(...)`      *)
(* resume in microtasks of the same turn, so no event is handled between    *)
(* the return of initialize and the tail of createUserVault.                *)
(***************************************************************************)
EXTENDS Integers, Sequences, FiniteSets, TLC

\* ------------------------------------------------------------------ bounds
MaxCalls == 2
MaxPassphrases == 2
MaxRandom == 2
MaxStringLen == 2
MaxPieces == 2
MaxTags == 2
MaxSaves == 2
MaxRows == 2
MaxTimers == 3

\* One userId: the items of a userId are touched only by calls made for it
\* (keys saltKey(u), testKey(u), vaultKey(u)).
Users == {"u1"}
\* the userIds that have items in localStorage
AllUsers == {"u1", "u2"}
PassphraseList == <<"pw1", "pw2", "pw3", "pw4">>
Passphrases == {PassphraseList[i] : i \in 1..MaxPassphrases}
ByteList == <<10, 255, 0, 16>>
RandomBytes == {ByteList[i] : i \in 1..MaxRandom}
\* "note"
Plaintexts == {<<110, 111, 116, 101>>}

\* UTF-16 code units of the strings handed to encrypt: a, e-acute, the euro
\* sign, the two halves of U+1F600, and U+FEFF
CodeUnits == {97, 233, 8364, 55357, 56832, 65279}
RECURSIVE StringsOfLen(_)
StringsOfLen(n) ==
    IF n = 0 THEN {<<>>}
    ELSE {<<c>> \o t : c \in CodeUnits, t \in StringsOfLen(n - 1)}
Strings == UNION {StringsOfLen(n) : n \in 0..MaxStringLen}

\* ------------------------------------------------------- program constants
SaltLen == 16
IvLen == 12
\* 'key_validation_test'
testMessage ==
    <<107, 101, 121, 95, 118, 97, 108, 105, 100, 97, 116, 105, 111, 110, 95,
      116, 101, 115, 116>>

Slots == 1..MaxCalls

\* --------------------------------------------------------------- variables
VARIABLES
    localStorage,   \* window.localStorage: key -> item
    key,            \* this.key
    userId,         \* this.userId
    calls,          \* the initialize / createUserVault calls in flight
    stored,         \* the envelope the last encrypt returned, as its caller keeps it
    lastRet,        \* history: the call that returned in the last step
    created,        \* history: per user, the last createUserVault that returned true
    validated,      \* history: a createUserVault/initialize returned true since the last clear
    plain,          \* the string its caller hands to encrypt
    out,            \* what the last decrypt returned to its caller
    noteIn,         \* the note object its caller hands to encryptNote
    noteEnc,        \* the note object the caller hands to decryptNote
    noteOut,        \* what the last decryptNote returned to its caller
    task,           \* the encryptNote / decryptNote call in flight
    isAuthenticated,    \* SecureNotesApp: this.isAuthenticated
    notes,              \* this.notes
    filteredNotes,      \* this.filteredNotes
    currentNote,        \* this.currentNote: "null", or "doc" for the object `doc`
    doc,                \* the note object made by createNewNote
    rows,               \* the notes object store of IndexedDB, latest updatedAt first
    storageUserId,      \* StorageManager: this.userId
    load,               \* the loadNotes call in flight
    saves,              \* the saveCurrentNote calls in flight
    locked,             \* history: how the last lockApp found the app, until
                        \* the next login is started
    scenario,           \* history: how far the sequence create, store, read,
                        \* lock, unlock, read again has come
    autoSaveTimeout,    \* this.autoSaveTimeout: a timer id, 0 while undefined
    timers,             \* the ids of the auto-save timers that are pending
    unsaved,            \* history: the scheduleAutoSave calls since the last
                        \* auto-save timer fired
    view,               \* this.currentFilter, this.selectedTags, this.searchQuery
    found,              \* what the last getAllNotes(options) resolved to, as
                        \* its caller keeps it, with the options
    deletion            \* the deleteCurrentNote call in flight

vars == <<localStorage, key, userId, calls, stored, lastRet, created, validated,
          plain, out, noteIn, noteEnc, noteOut, task,
          isAuthenticated, notes, filteredNotes, currentNote, doc, rows,
          storageUserId, load, saves, locked, scenario,
          autoSaveTimeout, timers, unsaved, view, found, deletion>>

appState == <<isAuthenticated, notes, filteredNotes, currentNote, doc, rows,
              storageUserId, load, saves, locked>>
timerVars == <<autoSaveTimeout, timers, unsaved>>
viewVars == <<view, found, deletion>>
appVars == <<appState, scenario, timerVars, viewVars>>

cipherVars == <<plain, out>>
noteVars == <<noteIn, noteEnc, noteOut, task>>

\* ------------------------------------------------------------ value shapes
Null == [null |-> TRUE]
Absent == [kind |-> "absent"]
HexItem(h) == [kind |-> "hex", hex |-> h]
EnvItem(e) == [kind |-> "env", env |-> e]
StrItem(s) == [kind |-> "str", str |-> s]

saltKeyShared(u) == <<"app_salt_", "u1">>

\* the localStorage keys of a userId
saltKey(u) == <<"app_salt_", u>>
testKey(u) == <<"key_test_", u>>
vaultKey(u) == <<"user_vault_", u>>
currentUserKey == <<"current_user", "">>

StorageKeys ==
    {saltKey(u) : u \in AllUsers} \cup {testKey(u) : u \in AllUsers}
        \cup {vaultKey(u) : u \in AllUsers} \cup {currentUserKey}

\* localStorage.getItem / setItem / removeItem
getItem(ls, k) == ls[k]
setItem(ls, k, v) == [ls EXCEPT ![k] = v]
removeItem(ls, k) == [ls EXCEPT ![k] = Absent]

\* crypto.getRandomValues(new Uint8Array(n)): one of the pool's arrays
getRandomValues(n) == {[i \in 1..n |-> b] : b \in RandomBytes}
FirstIv == [i \in 1..IvLen |-> ByteList[1]]

\* ------------------------------------------------------- salt hex encoding
\* b.toString(16): hex digits of a byte, no leading zero
toString16(b) == IF b < 16 THEN <<b>> ELSE <<b \div 16, b % 16>>

\* s.padStart(2, '0')
padStart2(s) == IF Len(s) < 2 THEN <<0>> \o s ELSE s

\* Array.from(saltArray).map(b => b.toString(16).padStart(2, '0')).join('')
RECURSIVE SaltToHex(_)
SaltToHex(bytes) ==
    IF bytes = <<>> THEN <<>>
    ELSE padStart2(toString16(Head(bytes))) \o SaltToHex(Tail(bytes))

\* parseInt(chunk, 16)
RECURSIVE parseInt16(_)
parseInt16(ds) ==
    IF ds = <<>> THEN 0
    ELSE 16 * parseInt16(SubSeq(ds, 1, Len(ds) - 1)) + ds[Len(ds)]

\* new Uint8Array(salt.match(/.{1,2}/g).map(byte => parseInt(byte, 16)))
RECURSIVE HexToSalt(_)
HexToSalt(h) ==
    IF h = <<>> THEN <<>>
    ELSE IF Len(h) = 1 THEN <<parseInt16(h)>>
    ELSE <<parseInt16(SubSeq(h, 1, 2))>> \o HexToSalt(SubSeq(h, 3, Len(h)))

\* ----------------------------------------------------------- text encoding
IsHighSurrogate(c) == 55296 <= c /\ c <= 56319
IsLowSurrogate(c) == 56320 <= c /\ c <= 57343

\* the UTF-8 bytes of one code point
Utf8(cp) ==
    IF cp < 128 THEN <<cp>>
    ELSE IF cp < 2048 THEN <<192 + (cp \div 64), 128 + (cp % 64)>>
    ELSE IF cp < 65536
         THEN <<224 + (cp \div 4096), 128 + ((cp \div 64) % 64), 128 + (cp % 64)>>
    ELSE <<240 + (cp \div 262144), 128 + ((cp \div 4096) % 64),
           128 + ((cp \div 64) % 64), 128 + (cp % 64)>>

\* new TextEncoder().encode(data): a surrogate pair is one code point, an
\* unpaired surrogate is encoded as U+FFFD
RECURSIVE TextEncode(_)
TextEncode(s) ==
    IF s = <<>> THEN <<>>
    ELSE IF IsHighSurrogate(s[1]) /\ Len(s) >= 2 /\ IsLowSurrogate(s[2])
         THEN Utf8(65536 + ((s[1] - 55296) * 1024) + (s[2] - 56320))
                  \o TextEncode(SubSeq(s, 3, Len(s)))
    ELSE IF IsHighSurrogate(s[1]) \/ IsLowSurrogate(s[1])
         THEN Utf8(65533) \o TextEncode(Tail(s))
    ELSE Utf8(s[1]) \o TextEncode(Tail(s))

\* the code points of a UTF-8 byte sequence (U+FFFD for a malformed byte)
RECURSIVE DecodePoints(_)
DecodePoints(b) ==
    IF b = <<>> THEN <<>>
    ELSE IF b[1] < 128 THEN <<b[1]>> \o DecodePoints(Tail(b))
    ELSE IF b[1] >= 240 /\ Len(b) >= 4
         THEN <<((b[1] - 240) * 262144) + ((b[2] - 128) * 4096)
                  + ((b[3] - 128) * 64) + (b[4] - 128)>>
                  \o DecodePoints(SubSeq(b, 5, Len(b)))
    ELSE IF b[1] >= 224 /\ b[1] < 240 /\ Len(b) >= 3
         THEN <<((b[1] - 224) * 4096) + ((b[2] - 128) * 64) + (b[3] - 128)>>
                  \o DecodePoints(SubSeq(b, 4, Len(b)))
    ELSE IF b[1] >= 192 /\ b[1] < 224 /\ Len(b) >= 2
         THEN <<((b[1] - 192) * 64) + (b[2] - 128)>>
                  \o DecodePoints(SubSeq(b, 3, Len(b)))
    ELSE <<65533>> \o DecodePoints(Tail(b))

\* the UTF-16 code units of a sequence of code points
RECURSIVE ToCodeUnits(_)
ToCodeUnits(cps) ==
    IF cps = <<>> THEN <<>>
    ELSE IF cps[1] >= 65536
         THEN <<55296 + ((cps[1] - 65536) \div 1024), 56320 + ((cps[1] - 65536) % 1024)>>
                  \o ToCodeUnits(Tail(cps))
    ELSE <<cps[1]>> \o ToCodeUnits(Tail(cps))

\* new TextDecoder().decode(decrypted): utf-8, ignoreBOM false, so a leading
\* U+FEFF is dropped
TextDecode(b) ==
    LET cps == DecodePoints(b)
    IN  ToCodeUnits(IF cps # <<>> /\ cps[1] = 65279 THEN Tail(cps) ELSE cps)

\* ------------------------------------------------------------- primitives
deriveKeyNoPassphrase(passphrase, salt) == [pw |-> "pw1", salt |-> salt]

\* deriveKey(passphrase, salt): PBKDF2 -> AES-GCM key
deriveKey(passphrase, salt) == [pw |-> passphrase, salt |-> salt]

\* crypto.subtle.encrypt output combined with the IV
Seal(k, iv, data) == [iv |-> iv, key |-> k, data |-> data]

OpensUnderAnyKey(k, env) == TRUE

\* crypto.subtle.decrypt: the tag verifies only under the sealing key
Opens(k, env) == env.key = k

\* what decrypt gives its caller: a string, or the error it throws
NoOut == [kind |-> "none"]
Threw == [kind |-> "threw"]
Text(s) == [kind |-> "text", text |-> s]

\* if (!this.key) throw new Error('Crypto not initialized...')
NotInitialized(k) == k = Null

\* isInitialized()
isInitialized == key # Null

\* --------------------------------------------------------- call bookkeeping
IdleCall ==
    [op |-> "none", pc |-> "idle", pw |-> "", u |-> "", salt |-> <<>>,
     k |-> Null, iv |-> <<>>, testData |-> Absent, gen |-> FALSE, stale |-> FALSE]

NoRet ==
    [op |-> "none", pw |-> "", u |-> "", result |-> FALSE, threw |-> FALSE,
     failedAt |-> "none", path |-> "none", gen |-> FALSE, stale |-> FALSE]

Ret(call, result, failedAt, path) ==
    [op |-> call.op, pw |-> call.pw, u |-> call.u, result |-> result, threw |-> FALSE,
     failedAt |-> failedAt, path |-> path, gen |-> call.gen, stale |-> call.stale]

\* values of created[u] other than the record of a completed creation
FailedCreate == [failed |-> TRUE]
HasVault(u) == created[u] \notin {Null, FailedCreate}

\* the slot a new call takes: the lowest free one
FreeSlot(c) ==
    /\ calls[c].pc = "idle"
    /\ \A d \in Slots : d < c => calls[d].pc # "idle"

NoPending == \A c \in Slots : calls[c].pc = "idle"

\* ------------------------------------------------------------------ notes
\* A note object.  title and content are Text(..) or EnvItem(..), tags is a
\* sequence of them; encrypted is "true", "false" or "undefined".
NoNote == [kind |-> "none"]
Note(title, content, tags, pinned, encrypted) ==
    [kind |-> "note", id |-> "n1", title |-> title, content |-> content,
     tags |-> tags, pinned |-> pinned, archived |-> "false",
     createdAt |-> 1, updatedAt |-> 1, encrypted |-> encrypted]
NoteIds == <<"n1", "n2", "n3", "n4">>
Returned(n) == [kind |-> "note", note |-> n]

IdleTask == [op |-> "none", pc |-> "idle"]

\* if (note.title), if (note.content): the empty string is falsy
Truthy(f) == f # Text(<<>>)

NoteStages == <<"title", "content", "tags">>

\* if (note.title) / if (note.content) / if (note.tags && note.tags.length > 0)
HasStage(src, i) ==
    IF NoteStages[i] = "title" THEN Truthy(src.title)
    ELSE IF NoteStages[i] = "content" THEN Truthy(src.content)
    ELSE src.tags # <<>>

\* the first field at or after position `from` that the call works on
\* (Len(NoteStages) + 1 when there is none)
RECURSIVE NextStage(_, _)
NextStage(src, from) ==
    IF from > Len(NoteStages) THEN from
    ELSE IF HasStage(src, from) THEN from
    ELSE NextStage(src, from + 1)

\* how many this.encrypt calls that field makes
EncryptCalls(op, src, from) ==
    LET i == NextStage(src, from)
    IN  IF op # "encryptNote" \/ i > Len(NoteStages) THEN 0
        ELSE IF NoteStages[i] = "tags" THEN Len(src.tags) ELSE 1

IvSeqs(n) == [1..n -> getRandomValues(IvLen)]

\* encryptNote lines 250-263 / decryptNote lines 279-292 from field `from` on:
\* the call returns, or throws because this.key is null, or suspends at the
\* await of the field's crypto calls, which captured this.key (k) and drew ivs.
NoteAdvance(op, src, acc, from, k, ivs) ==
    LET i == NextStage(src, from)
    IN  IF i > Len(NoteStages)
        THEN [kind |-> "return",
              note |-> [acc EXCEPT !.encrypted =
                           IF op = "encryptNote" THEN "true" ELSE "false"]]
        ELSE IF NotInitialized(k) THEN [kind |-> "throw"]
        ELSE [kind |-> "await",
              task |-> [op |-> op, pc |-> NoteStages[i], at |-> i, src |-> src,
                        acc |-> acc, k |-> k, ivs |-> ivs]]

\* a field that does not open is handed back as it is
FieldResultKeepsSealed(op, k, f, iv) ==
    IF op = "encryptNote" THEN EnvItem(Seal(k, iv, TextEncode(f.text)))
    ELSE IF f.kind = "env" /\ Opens(k, f.env) THEN Text(TextDecode(f.env.data))
    ELSE f

\* the value the pending crypto call of one field settles to
\* (Threw when crypto.subtle.decrypt rejects)
FieldResult(op, k, f, iv) ==
    IF op = "encryptNote" THEN EnvItem(Seal(k, iv, TextEncode(f.text)))
    ELSE IF f.kind = "env" /\ Opens(k, f.env) THEN Text(TextDecode(f.env.data))
    ELSE Threw

\* the copy with the settled field(s) assigned, or Threw
NoteAssign(t) ==
    IF t.pc = "tags"
    THEN LET rs == [j \in 1..Len(t.src.tags) |->
                       FieldResult(t.op, t.k, t.src.tags[j],
                                   IF t.op = "encryptNote" THEN t.ivs[j] ELSE <<>>)]
         IN  IF \E j \in 1..Len(rs) : rs[j] = Threw THEN Threw
             ELSE [t.acc EXCEPT !.tags = rs]
    ELSE LET f == IF t.pc = "title" THEN t.src.title ELSE t.src.content
             r == FieldResult(t.op, t.k, f,
                              IF t.op = "encryptNote" THEN t.ivs[1] ELSE <<>>)
         IN  IF r = Threw THEN Threw
             ELSE IF t.pc = "title" THEN [t.acc EXCEPT !.title = r]
             ELSE [t.acc EXCEPT !.content = r]

\* the suspended call resumes with this.key = k; `live` is what the note
\* object it was given holds by now
NoteResumeLive(t, live, k, ivs) ==
    LET acc == NoteAssign(t)
    IN  IF acc = Threw THEN [kind |-> "throw"]
        ELSE NoteAdvance(t.op, live, acc, t.at + 1, k, ivs)

\* the same for a note object that nothing changed meanwhile
NoteResume(t, k, ivs) == NoteResumeLive(t, t.src, k, ivs)

NotEncryptedOnlyWhenFalse(n) == n.encrypted = "false"

\* if (!encryptedNote.encrypted) return encryptedNote
NotEncrypted(n) == n.encrypted # "true"

\* ---------------------------------------------------------- SecureNotesApp
SaveSlots == 1..MaxSaves
IdleLoad == [pc |-> "idle"]
IdleSave == [pc |-> "idle"]
\* an element of this.notes that is the object `doc` itself
DocRef == [kind |-> "ref"]

\* the constructor (this.notes = [], ..., isAuthenticated = false) and
\* StorageManager's (userId 'default')
IdleDelete == [pc |-> "idle"]

\* the constructor's view, lines 60-62: filter 'all', no tag, no search
AllNotesView == [currentFilter |-> "all", selectedTags |-> <<>>, searchQuery |-> <<>>]

\* nothing of the sequence has happened
NoScenario == [phase |-> "new", before |-> NoOut, failed |-> FALSE]

AppConstructed ==
    /\ isAuthenticated = FALSE
    /\ notes = <<>>
    /\ filteredNotes = <<>>
    /\ currentNote = "null"
    /\ doc = NoNote
    /\ storageUserId = "default"
    /\ load = IdleLoad
    /\ saves = [s \in SaveSlots |-> IdleSave]
    /\ locked = "no"
    /\ scenario = NoScenario
    /\ autoSaveTimeout = 0
    /\ timers = {}
    /\ unsaved = 0
    /\ view = AllNotesView
    /\ found = NoOut
    /\ deletion = IdleDelete

\* StorageManager.saveNote: the record it puts into the store
NoteToSave(n, uid) ==
    [kind |-> "note", id |-> n.id, userId |-> uid,
     title |-> IF Truthy(n.title) THEN n.title ELSE Text(<<85, 110, 116, 105, 116, 108, 101, 100>>),
     content |-> n.content, tags |-> n.tags, pinned |-> n.pinned,
     archived |-> "undefined",
     createdAt |-> n.createdAt, updatedAt |-> n.updatedAt,
     encrypted |-> IF n.encrypted = "true" THEN "true" ELSE "false"]

\* store.put(noteToSave): the row replaces the one of its id; its updatedAt
\* is the time of the call, the latest in the store
Put(store, row) == <<row>> \o SelectSeq(store, LAMBDA r : r.id # row.id)

\* the rows of every user
GetAllNotesEveryUser(store, uid) == store

\* StorageManager.getAllNotes: the rows of the current user (or of no user),
\* sorted by updatedAt, latest first
GetAllNotes(store, uid) ==
    SelectSeq(store, LAMBDA r : r.userId \in {uid, "undefined"})

\* StorageManager.getAllNotes(options), lines 436-464, with no sortBy: the
\* rows of the current user, then the pinned and the tags filters, then the
\* sort by updatedAt, latest first (the order the store is kept in)
GetAllNotesWith(store, uid, options) ==
    LET own == GetAllNotes(store, uid)
        byPinned == IF options.pinned # "undefined"
                    THEN SelectSeq(own, LAMBDA r : r.pinned = (options.pinned = "true"))
                    ELSE own
    IN  IF Len(options.tags) > 0
        THEN SelectSeq(byPinned,
                       LAMBDA r : \E i \in 1..Len(options.tags), j \in 1..Len(r.tags) :
                                     r.tags[j] = options.tags[i])
        ELSE byPinned

\* the value of an element of this.notes
Deref(e, d) == IF e = DocRef THEN d ELSE e

\* applyCurrentFilter with currentFilter 'all', no selected tag, no search
\* query: this.filteredNotes afterwards (cur: before).  The notes that are
\* not archived; reading .archived of a null element throws before the
\* assignment.
ApplyCurrentFilter(ns, d, cur) ==
    IF \E i \in 1..Len(ns) : Deref(ns[i], d) = NoNote THEN cur
    ELSE SelectSeq(ns, LAMBDA e : Deref(e, d).archived # "true")

\* String.prototype.toLowerCase / trim / includes over code units: A-Z are
\* lowered; trim strips ECMAScript WhiteSpace and LineTerminator code units
LineTerminators == {10, 13, 8232, 8233}
WhiteSpace == {9, 11, 12, 32, 160, 5760, 8239, 8287, 12288, 65279} \cup (8192..8202)
                \cup LineTerminators
toLowerCase(s) == [i \in 1..Len(s) |-> IF 65 <= s[i] /\ s[i] <= 90 THEN s[i] + 32 ELSE s[i]]

RECURSIVE trimStart(_)
trimStart(s) == IF s # <<>> /\ Head(s) \in WhiteSpace THEN trimStart(Tail(s)) ELSE s

RECURSIVE trimEnd(_)
trimEnd(s) == IF s # <<>> /\ s[Len(s)] \in WhiteSpace THEN trimEnd(SubSeq(s, 1, Len(s) - 1)) ELSE s

trim(s) == trimEnd(trimStart(s))

includes(s, t) == \E i \in 0..(Len(s) - Len(t)) : SubSeq(s, i + 1, i + Len(t)) = t

\* RegExp.prototype.test for the patterns of analyzePasswordStrength, over
\* code units (no u flag): a class matches one code unit in its ranges, and
\* `.` matches one code unit that is not a line terminator (no s flag)
HasLower(s) == \E i \in 1..Len(s) : 97 <= s[i] /\ s[i] <= 122
HasUpper(s) == \E i \in 1..Len(s) : 65 <= s[i] /\ s[i] <= 90
HasDigit(s) == \E i \in 1..Len(s) : 48 <= s[i] /\ s[i] <= 57
HasOther(s) ==
    \E i \in 1..Len(s) : ~(\/ 97 <= s[i] /\ s[i] <= 122
                           \/ 65 <= s[i] /\ s[i] <= 90
                           \/ 48 <= s[i] /\ s[i] <= 57)
\* /(.)\1{2,}/
HasTriple(s) ==
    \E i \in 1..(Len(s) - 2) :
       s[i] \notin LineTerminators /\ s[i + 1] = s[i] /\ s[i + 2] = s[i]

\* CryptoManager.analyzePasswordStrength, crypto.js lines 328-358: the score
\* and the rating (feedback left out)
analyzePasswordStrength(password) ==
    LET score == (IF Len(password) >= 12 THEN 2 ELSE IF Len(password) >= 8 THEN 1 ELSE 0)
                 + (IF HasLower(password) THEN 1 ELSE 0)
                 + (IF HasUpper(password) THEN 1 ELSE 0)
                 + (IF HasDigit(password) THEN 1 ELSE 0)
                 + (IF HasOther(password) THEN 1 ELSE 0)
                 - (IF HasTriple(password) THEN 1 ELSE 0)
    IN  [score |-> score,
         strength |-> IF score >= 5 THEN "strong"
                      ELSE IF score >= 3 THEN "medium" ELSE "weak"]

\* StorageManager.searchNotes(query, notes), README.md lines 507-532, over
\* decrypted notes
searchNotes(query, ns) ==
    IF query = <<>> \/ trim(query) = <<>> THEN ns
    ELSE LET searchTerm == trim(toLowerCase(query))
         IN  SelectSeq(ns, LAMBDA n :
                 \/ n.title.text # <<>> /\ includes(toLowerCase(n.title.text), searchTerm)
                 \/ n.content.text # <<>> /\ includes(toLowerCase(n.content.text), searchTerm)
                 \/ \E j \in 1..Len(n.tags) :
                       includes(toLowerCase(n.tags[j].text), searchTerm))

\* the archived notes are not left out
ApplyFilterUnderKeepsArchived(ns, d, cur, v, dayAgo) ==
    LET all == [i \in 1..Len(ns) |-> Deref(ns[i], d)]
        byFilter == IF v.currentFilter = "pinned" THEN SelectSeq(all, LAMBDA n : n.pinned)
                    ELSE IF v.currentFilter = "archived"
                         THEN SelectSeq(all, LAMBDA n : n.archived = "true")
                    ELSE all
    IN  byFilter

\* applyCurrentFilter, lines 566-603, under the view v (currentFilter,
\* selectedTags, searchQuery): this.filteredNotes afterwards (cur: before).
\* dayAgo is Date.now() less 24 hours.  Reading .archived of a null element
\* throws before the assignment.
ApplyFilterUnder(ns, d, cur, v, dayAgo) ==
    IF \E i \in 1..Len(ns) : Deref(ns[i], d) = NoNote THEN cur
    ELSE LET all == [i \in 1..Len(ns) |-> Deref(ns[i], d)]
             shown == IF v.currentFilter # "archived"
                      THEN SelectSeq(all, LAMBDA n : n.archived # "true")
                      ELSE all
             byFilter == IF v.currentFilter = "pinned"
                         THEN SelectSeq(shown, LAMBDA n : n.pinned)
                         ELSE IF v.currentFilter = "recent"
                              THEN SelectSeq(shown, LAMBDA n : n.updatedAt > dayAgo)
                         ELSE IF v.currentFilter = "archived"
                              THEN SelectSeq(shown, LAMBDA n : n.archived = "true")
                         ELSE shown
             byTag == IF Len(v.selectedTags) > 0
                      THEN SelectSeq(byFilter, LAMBDA n :
                               \E i \in 1..Len(v.selectedTags), j \in 1..Len(n.tags) :
                                   n.tags[j] = v.selectedTags[i])
                      ELSE byFilter
         IN  IF v.searchQuery # <<>> THEN searchNotes(v.searchQuery, byTag) ELSE byTag

\* loadNotes, lines 378-391: the loop over the rows still to decrypt, up to
\* the next await of a crypto call, then the tail of loadNotes and of the
\* handler that awaited it (showMainScreen: no note, no current note).
\* ns: this.notes; k: this.key
RECURSIVE LoadLoop(_, _, _)
LoadLoop(rest, ns, k) ==
    IF rest = <<>> THEN [kind |-> "done", notes |-> ns]
    ELSE IF NotEncrypted(Head(rest))
         THEN LoadLoop(Tail(rest), Append(ns, Head(rest)), k)
    ELSE LET o == NoteAdvance("decryptNote", Head(rest), Head(rest), 1, k, <<>>)
         IN  IF o.kind = "await"
             THEN [kind |-> "await", notes |-> ns, sub |-> o.task, rest |-> Tail(rest)]
             ELSE IF o.kind = "return"
                  THEN LoadLoop(Tail(rest), Append(ns, o.note), k)
             ELSE LoadLoop(Tail(rest), ns, k)

\* what a step of loadNotes leaves: it is still suspended, or it is done and
\* handleLogin goes on to showMainScreen
LoadOutcome(l) ==
    IF l.kind = "await"
    THEN /\ notes' = l.notes
         /\ load' = [pc |-> "decrypt", sub |-> l.sub, rest |-> l.rest]
         /\ UNCHANGED <<filteredNotes, currentNote>>
    ELSE /\ notes' = l.notes
         /\ load' = IdleLoad
         /\ filteredNotes' = ApplyCurrentFilter(l.notes, doc, filteredNotes)
         /\ currentNote' = IF l.notes = <<>> THEN "null" ELSE currentNote

\* ------------------------------------------------------------------- Init
Init ==
    /\ localStorage = [k \in StorageKeys |-> Absent]
    /\ key = Null
    /\ userId = ""
    /\ calls = [c \in Slots |-> IdleCall]
    /\ stored = Absent
    /\ lastRet = NoRet
    /\ created = [u \in AllUsers |-> Null]
    /\ validated = FALSE
    /\ plain = <<>>
    /\ out = NoOut
    /\ noteIn = NoNote
    /\ noteEnc = NoNote
    /\ noteOut = NoOut
    /\ task = IdleTask
    /\ AppConstructed
    /\ rows = <<>>

\* ------------------------------------------------- pieces of the handlers
SaltMissingAlways(item) == TRUE

\* if (!salt)
SaltMissing(item) == item = Absent

ProbeMissingAlways(item) == TRUE

\* if (!testData)
ProbeMissing(item) == item = Absent

\* the generated salt is used for this derivation but never persisted
InitializeEntryNoPersist(ls, u, rnd, wf) ==
    LET item == getItem(ls, saltKey(u))
    IN  IF item = Absent
        THEN [threw |-> FALSE, ls |-> ls, salt |-> HexToSalt(SaltToHex(rnd)), gen |-> TRUE]
        ELSE [threw |-> FALSE, ls |-> ls, salt |-> HexToSalt(item.hex), gen |-> FALSE]

\* the persisted salt is ignored: every call derives from a new random salt
InitializeEntryFreshSalt(ls, u, rnd, wf) ==
    [threw |-> FALSE, ls |-> ls, salt |-> rnd, gen |-> getItem(ls, saltKey(u)) = Absent]

\* a persisted item that is one line break, and one that is no hex number
LineBreak == StrItem("\n")
NotHex == StrItem("zz")

\* line 64 on a persisted salt: salt.match(/.{1,2}/g) is null for a string
\* of line breaks (.map of null throws); parseInt of a chunk that is no hex
\* number is NaN, which the Uint8Array holds as 0
DecodeSalt(item) ==
    IF item.kind = "hex" THEN [threw |-> FALSE, salt |-> HexToSalt(item.hex)]
    ELSE IF item = LineBreak THEN [threw |-> TRUE, salt |-> <<>>]
    ELSE [threw |-> FALSE, salt |-> <<0>>]

\* initialize, lines 54-64: generate or retrieve the salt, decode it.
\* wf: the localStorage calls that throw in this step ("getItem": the read
\* of line 56; a key: the setItem of that key).
InitializeEntry(ls, u, rnd, wf) ==
    LET item == getItem(ls, saltKey(u))
    IN  IF "getItem" \in wf
        THEN [threw |-> TRUE, ls |-> ls, salt |-> <<>>, gen |-> FALSE]
        ELSE IF SaltMissing(item)
        THEN IF "app_salt_" \in wf
             THEN [threw |-> TRUE, ls |-> ls, salt |-> <<>>, gen |-> TRUE]
             ELSE [threw |-> FALSE,
                   ls |-> setItem(ls, saltKey(u), HexItem(SaltToHex(rnd))),
                   salt |-> HexToSalt(SaltToHex(rnd)), gen |-> TRUE]
        ELSE [threw |-> DecodeSalt(item).threw, ls |-> ls,
              salt |-> DecodeSalt(item).salt, gen |-> FALSE]

\* createUserVault, lines 109-117: wipe the vault's items, store a new salt.
CreateEntry(ls, u, rnd, wf) ==
    LET wiped == removeItem(removeItem(removeItem(ls, vaultKey(u)), saltKey(u)), testKey(u))
    IN  IF "app_salt_" \in wf
        THEN [threw |-> TRUE, ls |-> wiped]
        ELSE [threw |-> FALSE, ls |-> setItem(wiped, saltKey(u), HexItem(SaltToHex(rnd)))]

\* the marker is written whatever initialize returned
CreateTailUnconditional(ls, u, success, wf) ==
    [ls |-> setItem(setItem(ls, vaultKey(u), StrItem("true")), currentUserKey, StrItem(u)),
     result |-> success, failedAt |-> "none"]

\* createUserVault, lines 122-128: mark the vault once initialize returned.
CreateTail(ls, u, success, wf) ==
    IF ~success THEN [ls |-> ls, result |-> FALSE, failedAt |-> "none"]
    ELSE IF "user_vault_" \in wf
         THEN [ls |-> ls, result |-> FALSE, failedAt |-> "marker"]
    ELSE IF "current_user" \in wf
         THEN [ls |-> setItem(ls, vaultKey(u), StrItem("true")),
               result |-> FALSE, failedAt |-> "current_user"]
    ELSE [ls |-> setItem(setItem(ls, vaultKey(u), StrItem("true")),
                         currentUserKey, StrItem(u)),
          result |-> TRUE, failedAt |-> "none"]

\* The return of a call whose initialize part has produced `success`; for
\* createUserVault the tail runs in the same turn of the event loop.
\* k: the key the call derived (Null if it returned before deriving).
Finish(c, call, ls, cr, success, failedAt, path, k) ==
    \E wf \in SUBSET {"user_vault_", "current_user"} :
      LET t == IF call.op = "createUserVault"
               THEN CreateTail(ls, call.u, success, wf)
               ELSE [ls |-> ls, result |-> success, failedAt |-> "none"]
          fa == IF failedAt # "none" THEN failedAt ELSE t.failedAt
      IN  /\ (call.op = "initialize" \/ ~success) => wf = {}
          /\ localStorage' = t.ls
          /\ calls' = [calls EXCEPT ![c] = IdleCall]
          /\ lastRet' = Ret(call, t.result, fa, path)
          /\ created' = IF call.op = "createUserVault"
                        THEN [cr EXCEPT ![call.u] =
                                 IF t.result THEN [pw |-> call.pw, k |-> k]
                                 ELSE FailedCreate]
                        ELSE cr
          /\ validated' = IF t.result /\ ~call.stale THEN TRUE ELSE validated

\* The call suspends at `await this.deriveKey(passphrase, saltArray)`.
AwaitDerive(c, call, ls, cr) ==
    /\ localStorage' = ls
    /\ calls' = [calls EXCEPT ![c] = [call EXCEPT !.pc = "derive"]]
    /\ lastRet' = NoRet
    /\ created' = cr
    /\ UNCHANGED validated

NewCall(op, pw, u, salt, gen) ==
    [IdleCall EXCEPT !.op = op, !.pw = pw, !.u = u, !.salt = salt, !.gen = gen]

\* ---------------------------------------------------------------- actions
\* initialize(passphrase, userId), up to the first await (lines 52-67)
initialize(c, passphrase, u, rnd, wf) ==
    /\ FreeSlot(c)
    /\ LET e == InitializeEntry(localStorage, u, rnd, wf)
           call == NewCall("initialize", passphrase, u, e.salt, e.gen)
       IN  IF e.threw
           THEN Finish(c, call, e.ls, created, FALSE, "salt", "none", Null)
           ELSE AwaitDerive(c, call, e.ls, created)
    /\ UNCHANGED <<key, userId, stored>>

\* createUserVault(passphrase, userId), up to the first await
\* (lines 102-120, then initialize lines 52-67)
createUserVault(c, passphrase, u, rnd, wf) ==
    /\ FreeSlot(c)
    /\ LET v == CreateEntry(localStorage, u, rnd, wf)
           e == InitializeEntry(v.ls, u, rnd, wf)
           cr == [created EXCEPT ![u] = Null]
           call == NewCall("createUserVault", passphrase, u, e.salt, FALSE)
       IN  IF v.threw \/ e.threw
           THEN Finish(c, [call EXCEPT !.salt = <<>>], v.ls, cr, FALSE, "salt", "none", Null)
           ELSE AwaitDerive(c, call, e.ls, cr)
    /\ UNCHANGED <<key, userId, stored>>

\* the key is derived from the passphrase alone
deriveResolvedNoSalt(c, iv) ==
    LET call == calls[c]
        k == deriveKey(call.pw, <<>>)
        testData == getItem(localStorage, testKey(call.u))
    IN  /\ call.pc = "derive"
        /\ key' = k
        /\ userId' = call.u
        /\ IF ProbeMissing(testData)
           THEN calls' = [calls EXCEPT ![c] =
                            [call EXCEPT !.pc = "encrypt", !.k = k, !.iv = iv]]
           ELSE calls' = [calls EXCEPT ![c] =
                            [call EXCEPT !.pc = "decrypt", !.k = k, !.testData = testData]]
        /\ lastRet' = NoRet
        /\ UNCHANGED <<localStorage, stored, created, validated>>

\* deriveKey resolves: lines 67-84, up to the await inside encrypt / decrypt
deriveResolved(c, iv) ==
    LET call == calls[c]
        k == deriveKey(call.pw, call.salt)
        testData == getItem(localStorage, testKey(call.u))
    IN  /\ call.pc = "derive"
        /\ key' = k
        /\ userId' = call.u
        /\ IF ProbeMissing(testData)
           THEN calls' = [calls EXCEPT ![c] =
                            [call EXCEPT !.pc = "encrypt", !.k = k, !.iv = iv]]
           ELSE calls' = [calls EXCEPT ![c] =
                            [call EXCEPT !.pc = "decrypt", !.k = k, !.testData = testData]]
        /\ lastRet' = NoRet
        /\ UNCHANGED <<localStorage, stored, created, validated>>

\* the rejection of deriveKey leaves initialize as an exception
deriveRejectedUncaught(c) ==
    LET call == calls[c]
    IN  /\ call.pc = "derive"
        /\ calls' = [calls EXCEPT ![c] = IdleCall]
        /\ lastRet' = [Ret(call, FALSE, "derive", "none") EXCEPT !.threw = TRUE]
        /\ created' = IF call.op = "createUserVault"
                      THEN [created EXCEPT ![call.u] = FailedCreate]
                      ELSE created
        /\ UNCHANGED <<localStorage, validated>>
        /\ UNCHANGED <<key, userId, stored>>

\* deriveKey rejects: caught at line 90, initialize returns false
deriveRejected(c) ==
    LET call == calls[c]
    IN  /\ call.pc = "derive"
        /\ Finish(c, call, localStorage, created, FALSE, "derive", "none", Null)
        /\ UNCHANGED <<key, userId, stored>>

\* the sealed constant is returned but not persisted
encryptResolvedNoPersist(c, wf) ==
    LET call == calls[c]
    IN  /\ call.pc = "encrypt"
        /\ IF "key_test_" \in wf
           THEN Finish(c, call, localStorage, created, FALSE, "probe", "bootstrap", call.k)
           ELSE Finish(c, call, localStorage, created, TRUE, "none", "bootstrap", call.k)
        /\ UNCHANGED <<key, userId, stored>>

\* the passphrase is kept as the probe
encryptResolvedStoresPassphrase(c, wf) ==
    LET call == calls[c]
    IN  /\ call.pc = "encrypt"
        /\ IF "key_test_" \in wf
           THEN Finish(c, call, localStorage, created, FALSE, "probe", "bootstrap", call.k)
           ELSE Finish(c, call, setItem(localStorage, testKey(call.u), StrItem(call.pw)),
                       created, TRUE, "none", "bootstrap", call.k)
        /\ UNCHANGED <<key, userId, stored>>

\* crypto.subtle.encrypt of the probe resolves: lines 77-80 (and 122-128)
encryptResolved(c, wf) ==
    LET call == calls[c]
        encrypted == Seal(call.k, call.iv, TextEncode(testMessage))
    IN  /\ call.pc = "encrypt"
        /\ IF "key_test_" \in wf
           THEN Finish(c, call, localStorage, created, FALSE, "probe", "bootstrap", call.k)
           ELSE Finish(c, call, setItem(localStorage, testKey(call.u), EnvItem(encrypted)),
                       created, TRUE, "none", "bootstrap", call.k)
        /\ UNCHANGED <<key, userId, stored>>

\* crypto.subtle.encrypt of the probe rejects: lines 198-201, then line 90
encryptRejected(c) ==
    LET call == calls[c]
    IN  /\ call.pc = "encrypt"
        /\ Finish(c, call, localStorage, created, FALSE, "encrypt", "bootstrap", call.k)
        /\ UNCHANGED <<key, userId, stored>>

\* a failed validation removes the probe
decryptSettledDropsProbe(c) ==
    LET call == calls[c]
        ok == /\ call.testData.kind = "env"
              /\ Opens(call.k, call.testData.env)
              /\ TextDecode(call.testData.env.data) = testMessage
    IN  /\ call.pc = "decrypt"
        /\ Finish(c, call,
                  IF ok THEN localStorage ELSE removeItem(localStorage, testKey(call.u)),
                  created, ok, "none", "decrypt", call.k)
        /\ UNCHANGED <<key, userId, stored>>

\* crypto.subtle.decrypt of the probe settles: lines 83-89 (a probe that is
\* no envelope makes decrypt throw, lines 216-238, like one that does not open)
decryptSettled(c) ==
    LET call == calls[c]
        ok == /\ call.testData.kind = "env"
              /\ Opens(call.k, call.testData.env)
              /\ TextDecode(call.testData.env.data) = testMessage
    IN  /\ call.pc = "decrypt"
        /\ Finish(c, call, localStorage, created, ok, "none", "decrypt", call.k)
        /\ UNCHANGED <<key, userId, stored>>

\* the key survives the call
clearKeepsKey ==
    /\ key' = key
    /\ calls' = [c \in Slots |->
                   IF calls[c].pc = "idle" THEN calls[c]
                   ELSE [calls[c] EXCEPT !.stale = TRUE]]
    /\ lastRet' = NoRet
    /\ validated' = FALSE
    /\ UNCHANGED <<localStorage, userId, stored, created>>

\* clear(): lines 311-313
clear ==
    /\ key' = Null
    /\ calls' = [c \in Slots |->
                   IF calls[c].pc = "idle" THEN calls[c]
                   ELSE [calls[c] EXCEPT !.stale = TRUE]]
    /\ lastRet' = NoRet
    /\ validated' = FALSE
    /\ UNCHANGED <<localStorage, userId, stored, created>>

\* the envelope carries no IV
encryptNoIv(data, iv) ==
    /\ IF NotInitialized(key)
       THEN /\ lastRet' = [NoRet EXCEPT !.op = "encrypt", !.threw = TRUE]
            /\ UNCHANGED stored
       ELSE /\ lastRet' = [NoRet EXCEPT !.op = "encrypt", !.result = TRUE]
            /\ stored' = EnvItem(Seal(key, <<>>, TextEncode(data)))
    /\ UNCHANGED <<localStorage, key, userId, calls, created, validated, out>>

\* encrypt(data): lines 170-202
encrypt(data, iv) ==
    /\ IF NotInitialized(key)
       THEN /\ lastRet' = [NoRet EXCEPT !.op = "encrypt", !.threw = TRUE]
            /\ UNCHANGED stored
       ELSE /\ lastRet' = [NoRet EXCEPT !.op = "encrypt", !.result = TRUE]
            /\ stored' = EnvItem(Seal(key, iv, TextEncode(data)))
    /\ UNCHANGED <<localStorage, key, userId, calls, created, validated, out>>

\* decrypt(encryptedData): lines 209-239
decrypt(env) ==
    /\ IF NotInitialized(key) \/ ~Opens(key, env)
       THEN /\ lastRet' = [NoRet EXCEPT !.op = "decrypt", !.threw = TRUE]
            /\ out' = Threw
       ELSE /\ lastRet' = [NoRet EXCEPT !.op = "decrypt", !.result = TRUE]
            /\ out' = Text(TextDecode(env.data))
    /\ UNCHANGED <<localStorage, key, userId, calls, stored, created, validated>>

\* the envelopes a caller can hand to decrypt
Envelopes ==
    {i.env : i \in {j \in {stored} \cup {localStorage[testKey(u)] : u \in Users} :
                       j # Absent}}

\* ------------------------------------------------- encryptNote/decryptNote
\* what a call into encryptNote / decryptNote does with the outcome `o` of
\* its step: it returns to its caller, throws, or stays suspended
NoteOutcome(op, o) ==
    IF o.kind = "await"
    THEN /\ task' = o.task
         /\ lastRet' = NoRet
         /\ UNCHANGED <<noteEnc, noteOut>>
    ELSE /\ task' = IdleTask
         /\ IF o.kind = "throw"
            THEN /\ lastRet' = [NoRet EXCEPT !.op = op, !.threw = TRUE]
                 /\ IF op = "decryptNote"
                    THEN noteOut' = Threw /\ UNCHANGED noteEnc
                    ELSE UNCHANGED <<noteEnc, noteOut>>
            ELSE /\ lastRet' = [NoRet EXCEPT !.op = op, !.result = TRUE,
                                            !.path = "crypto"]
                 /\ IF op = "decryptNote"
                    THEN noteOut' = Returned(o.note) /\ UNCHANGED noteEnc
                    ELSE noteEnc' = o.note /\ UNCHANGED noteOut

\* encryptNote(note), lines 246-264, up to its first await
encryptNote(ivs) ==
    /\ task = IdleTask
    /\ noteIn # NoNote
    /\ NoteOutcome("encryptNote",
                   NoteAdvance("encryptNote", noteIn, noteIn, 1, key, ivs))
    /\ UNCHANGED <<localStorage, key, userId, calls, stored, created, validated,
                   cipherVars, noteIn>>

\* decryptNote(encryptedNote), lines 271-293, up to its first await
decryptNote ==
    /\ task = IdleTask
    /\ noteEnc # NoNote
    /\ IF NotEncrypted(noteEnc)
       THEN /\ noteOut' = Returned(noteEnc)
            /\ lastRet' = [NoRet EXCEPT !.op = "decryptNote", !.result = TRUE,
                                       !.path = "unchanged"]
            /\ UNCHANGED <<task, noteEnc>>
       ELSE NoteOutcome("decryptNote",
                        NoteAdvance("decryptNote", noteEnc, noteEnc, 1, key, <<>>))
    /\ UNCHANGED <<localStorage, key, userId, calls, stored, created, validated,
                   cipherVars, noteIn>>

\* the crypto calls of the field in progress settle and the call goes on
noteResolved(ivs) ==
    /\ task # IdleTask
    /\ NoteOutcome(task.op, NoteResume(task, key, ivs))
    /\ UNCHANGED <<localStorage, key, userId, calls, stored, created, validated,
                   cipherVars, noteIn>>

\* crypto.subtle.encrypt rejects: encrypt rethrows (lines 198-201)
noteRejected ==
    /\ task # IdleTask
    /\ task.op = "encryptNote"
    /\ NoteOutcome(task.op, [kind |-> "throw"])
    /\ UNCHANGED <<localStorage, key, userId, calls, stored, created, validated,
                   cipherVars, noteIn>>

\* the random salts and the failing writes that make a difference to an
\* initialize(_, u) entered now: none when it finds a salt persisted
SaltDraws(u) ==
    IF SaltMissing(getItem(localStorage, saltKey(u)))
    THEN getRandomValues(SaltLen) \X SUBSET {"app_salt_"}
    ELSE {<<<<>>, {}>>}

\* --------------------------------------------------- SecureNotesApp actions
managerVars == <<localStorage, key, userId, calls, stored, lastRet, created, validated>>

\* handleLogin after `await this.crypto.initialize(...)`, when that call
\* returned in this step: on success isAuthenticated is set and loadNotes
\* runs up to `await this.storage.getAllNotes()`
LoginReturn ==
    IF lastRet'.op = "initialize" /\ lastRet'.result
    THEN /\ isAuthenticated' = TRUE
         /\ load' = [pc |-> "getAll"]
    ELSE UNCHANGED <<isAuthenticated, load>>

\* handleLogin, lines 334-365, up to the first await inside initialize
handleLogin(c, passphrase) ==
    /\ storageUserId' = "u1"
    /\ \E d \in SaltDraws("u1") : initialize(c, passphrase, "u1", d[1], d[2])
    /\ LoginReturn
    /\ locked' = "no"
    /\ UNCHANGED <<cipherVars, noteVars, scenario, timerVars, viewVars, notes, filteredNotes, currentNote, doc,
                   rows, saves>>

\* a crypto promise of the initialize call of handleLogin settles
loginResumed(c) ==
    /\ \/ \E iv \in getRandomValues(IvLen) : deriveResolved(c, iv)
       \/ deriveRejected(c)
       \/ \E wf \in SUBSET {"key_test_"} : encryptResolved(c, wf)
       \/ encryptRejected(c)
       \/ decryptSettled(c)
    /\ LoginReturn
    /\ UNCHANGED <<cipherVars, noteVars, scenario, timerVars, viewVars, notes, filteredNotes, currentNote, doc,
                   rows, storageUserId, saves, locked>>

\* storage.getAllNotes settles: loadNotes lines 375-396
loadGetAllSettled(ok) ==
    /\ load.pc = "getAll"
    /\ IF ok
       THEN LoadOutcome(LoadLoop(GetAllNotes(rows, storageUserId), <<>>, key))
       ELSE /\ load' = IdleLoad
            /\ currentNote' = IF notes = <<>> THEN "null" ELSE currentNote
            /\ UNCHANGED <<notes, filteredNotes>>
    /\ UNCHANGED <<managerVars, cipherVars, noteVars, scenario, timerVars, viewVars, isAuthenticated, doc, rows,
                   storageUserId, saves, locked>>

\* a note that fails to open ends the loop
loadDecryptSettledStopsAtFailure ==
    /\ load.pc = "decrypt"
    /\ LET o == NoteResume(load.sub, key, <<>>)
       IN  IF o.kind = "await"
           THEN /\ load' = [load EXCEPT !.sub = o.task]
                /\ UNCHANGED <<notes, filteredNotes, currentNote>>
           ELSE LoadOutcome(IF o.kind = "return"
                            THEN LoadLoop(load.rest, Append(notes, o.note), key)
                            ELSE [kind |-> "done", notes |-> notes])
    /\ UNCHANGED <<managerVars, cipherVars, noteVars, scenario, timerVars, viewVars, isAuthenticated, doc, rows,
                   storageUserId, saves, locked>>

\* a crypto promise of the decryptNote call of loadNotes settles
loadDecryptSettled ==
    /\ load.pc = "decrypt"
    /\ LET o == NoteResume(load.sub, key, <<>>)
       IN  IF o.kind = "await"
           THEN /\ load' = [load EXCEPT !.sub = o.task]
                /\ UNCHANGED <<notes, filteredNotes, currentNote>>
           ELSE LoadOutcome(LoadLoop(load.rest,
                                     IF o.kind = "return" THEN Append(notes, o.note)
                                     ELSE notes,
                                     key))
    /\ UNCHANGED <<managerVars, cipherVars, noteVars, scenario, timerVars, viewVars, isAuthenticated, doc, rows,
                   storageUserId, saves, locked>>

\* What a passphrase field of the setup form holds: a text named by how it
\* reads, with its UTF-16 code units, put together from at most MaxPieces
\* pieces ((LS) stands for the line separator U+2028).
SetupPieces ==
    << [text |-> "aaa", units |-> <<97, 97, 97>>],
       [text |-> "abababab", units |-> <<97, 98, 97, 98, 97, 98, 97, 98>>],
       [text |-> "A1", units |-> <<65, 49>>],
       [text |-> " ", units |-> <<32>>],
       [text |-> "(LS)(LS)(LS)", units |-> <<8232, 8232, 8232>>] >>

RECURSIVE SetupTextsOf(_)
SetupTextsOf(n) ==
    IF n = 0 THEN {[text |-> "", units |-> <<>>]}
    ELSE LET shorter == SetupTextsOf(n - 1)
         IN  shorter \cup {[text |-> t.text \o SetupPieces[i].text,
                            units |-> t.units \o SetupPieces[i].units] :
                              t \in shorter, i \in DOMAIN SetupPieces}

SetupTexts == SetupTextsOf(MaxPieces)
SetupStrings == {t.text : t \in SetupTexts}
CodeUnitsOf(text) == (CHOOSE t \in SetupTexts : t.text = text).units

\* the confirmation field holds the same text or the same text and an a
Confirmations(passphrase) == {passphrase, passphrase \o "a"}

\* handleSetup after `await this.crypto.createUserVault(...)`, when that
\* call returned in this step: on success the storage is bound to the user,
\* isAuthenticated is set and loadNotes runs up to its first await
SetupReturn ==
    IF lastRet'.op = "createUserVault" /\ lastRet'.result
    THEN /\ storageUserId' = "u1"
         /\ isAuthenticated' = TRUE
         /\ load' = [pc |-> "getAll"]
    ELSE UNCHANGED <<storageUserId, isAuthenticated, load>>

\* handleSetup, lines 248-295, up to the first await inside createUserVault;
\* a form it rejects ends at its showError, recorded as the last return
handleSetup(c, passphrase, confirmPassphrase) ==
    LET rejected == IF trim(CodeUnitsOf(passphrase)) = <<>> THEN "blank"
                    ELSE IF passphrase # confirmPassphrase THEN "mismatch"
                    ELSE IF analyzePasswordStrength(CodeUnitsOf(passphrase)).strength = "weak"
                         THEN "weak"
                    ELSE "none"
    IN  /\ IF rejected # "none"
           THEN /\ lastRet' = [NoRet EXCEPT !.op = "handleSetup", !.pw = passphrase,
                                             !.failedAt = rejected]
                /\ UNCHANGED <<localStorage, key, userId, calls, stored, created, validated,
                               storageUserId, isAuthenticated, load>>
           ELSE /\ \E rnd \in getRandomValues(SaltLen), wf \in SUBSET {"app_salt_"} :
                      createUserVault(c, passphrase, "u1", rnd, wf)
                /\ SetupReturn
        /\ UNCHANGED <<cipherVars, noteVars, scenario, timerVars, viewVars, notes, filteredNotes,
                       currentNote, doc, rows, saves, locked>>

\* a crypto promise of the createUserVault call of handleSetup settles
setupResumed(c) ==
    /\ \/ \E iv \in getRandomValues(IvLen) : deriveResolved(c, iv)
       \/ deriveRejected(c)
       \/ \E wf \in SUBSET {"key_test_"} : encryptResolved(c, wf)
       \/ encryptRejected(c)
       \/ decryptSettled(c)
    /\ SetupReturn
    /\ UNCHANGED <<cipherVars, noteVars, scenario, timerVars, viewVars, notes, filteredNotes,
                   currentNote, doc, rows, saves, locked>>

\* what a step of the loadNotes of an import leaves: it is still suspended,
\* or it is done (lines 386-390) and handleImportFile reports success; the
\* editor stays as it is
ImportOutcome(l) ==
    IF l.kind = "await"
    THEN /\ notes' = l.notes
         /\ load' = [pc |-> "importDecrypt", sub |-> l.sub, rest |-> l.rest]
         /\ UNCHANGED filteredNotes
    ELSE /\ notes' = l.notes
         /\ load' = IdleLoad
         /\ filteredNotes' = ApplyCurrentFilter(l.notes, doc, filteredNotes)

\* handleImportFile, lines 1017-1027, for a backup file that holds no notes
\* and no settings (importData writes nothing and returns true), up to the
\* `await this.storage.getAllNotes()` of its loadNotes
handleImportFile ==
    /\ isAuthenticated
    /\ load = IdleLoad
    /\ load' = [pc |-> "importGetAll"]
    /\ UNCHANGED <<managerVars, cipherVars, noteVars, scenario, timerVars, viewVars,
                   isAuthenticated, notes, filteredNotes, currentNote, doc, rows,
                   storageUserId, saves, locked>>

\* storage.getAllNotes settles in the loadNotes of an import.  The store
\* settles its requests in the order they were placed: the puts that are
\* pending settle before it.
importGetAllSettled(ok) ==
    /\ load.pc = "importGetAll"
    /\ \A s \in SaveSlots : saves[s].pc # "saveNote"
    /\ IF ok
       THEN ImportOutcome(LoadLoop(GetAllNotes(rows, storageUserId), <<>>, key))
       ELSE load' = IdleLoad /\ UNCHANGED <<notes, filteredNotes>>
    /\ UNCHANGED <<managerVars, cipherVars, noteVars, scenario, timerVars, viewVars,
                   isAuthenticated, currentNote, doc, rows, storageUserId, saves, locked>>

\* a crypto promise of the decryptNote call of that loadNotes settles
importDecryptSettled ==
    /\ load.pc = "importDecrypt"
    /\ LET o == NoteResume(load.sub, key, <<>>)
       IN  IF o.kind = "await"
           THEN /\ load' = [load EXCEPT !.sub = o.task]
                /\ UNCHANGED <<notes, filteredNotes>>
           ELSE ImportOutcome(LoadLoop(load.rest,
                                       IF o.kind = "return" THEN Append(notes, o.note)
                                       ELSE notes,
                                       key))
    /\ UNCHANGED <<managerVars, cipherVars, noteVars, scenario, timerVars, viewVars,
                   isAuthenticated, currentNote, doc, rows, storageUserId, saves, locked>>

\* createNewNote, lines 400-419
createNewNote ==
    /\ doc' = Note(Text(<<>>), Text(<<>>), <<>>, FALSE, "undefined")
    /\ currentNote' = "doc"
    /\ UNCHANGED <<managerVars, cipherVars, noteVars, scenario, timerVars, viewVars, isAuthenticated, notes,
                   filteredNotes, rows, storageUserId, load, saves, locked>>

\* what the editor holds: a title, the content, no tag
EditorInputs ==
    {[title |-> Text(<<97>>), content |-> Text(c), tags |-> <<>>] :
        c \in {<<>>, <<233>>}}

FreeSave(s) ==
    /\ saves[s].pc = "idle"
    /\ \A r \in SaveSlots : r < s => saves[r].pc # "idle"

\* saveCurrentNote returned to its caller `by` (it catches its own errors,
\* line 461); d: what the note object holds.  toggleArchiveNote goes on with
\* lines 532-535: `if (this.currentNote.archived) this.showWelcomeScreen()`,
\* which throws when currentNote is null by now.
SaveReturned(by, d) ==
    currentNote' = IF by = "archive" /\ currentNote = "doc" /\ d.archived = "true"
                   THEN "null" ELSE currentNote

\* encryptNote of a saveCurrentNote call went one step: the call is still
\* inside encryptNote, or it threw (caught at line 461), or it holds the
\* encrypted note and calls storage.saveNote, whose put succeeds or fails
SaveOutcome(s, o, by, d) ==
    IF o.kind = "await"
    THEN saves' = [saves EXCEPT ![s] = [pc |-> "encrypt", sub |-> o.task, by |-> by]]
         /\ UNCHANGED <<rows, currentNote>>
    ELSE IF o.kind = "throw"
    THEN saves' = [saves EXCEPT ![s] = IdleSave] /\ UNCHANGED rows
         /\ SaveReturned(by, d)
    ELSE \E ok \in BOOLEAN :
           /\ saves' = [saves EXCEPT ![s] = [pc |-> "saveNote", ok |-> ok, by |-> by]]
           /\ rows' = IF ok THEN Put(rows, NoteToSave(o.note, storageUserId)) ELSE rows
           /\ UNCHANGED currentNote

\* saveCurrentNote, lines 424-449, up to the first await inside encryptNote
\* (run by the save button, Ctrl+S, the pin / archive buttons and the
\* auto-save timer)
saveCurrentNoteBy(s, by, cur, input, ivs) ==
    /\ currentNote = "doc"
    /\ FreeSave(s)
    /\ LET d == [cur EXCEPT !.title = input.title, !.content = input.content,
                            !.tags = input.tags]
       IN  /\ doc' = d
           /\ SaveOutcome(s, NoteAdvance("encryptNote", d, d, 1, key, ivs), by, d)
    /\ UNCHANGED <<managerVars, cipherVars, noteVars, scenario, viewVars, isAuthenticated,
                   notes, filteredNotes, storageUserId, load, locked>>

saveCurrentNote(s, input, ivs) ==
    saveCurrentNoteBy(s, "save", doc, input, ivs) /\ UNCHANGED timerVars

\* toggleArchiveNote, lines 522-536, up to the first await inside the
\* encryptNote of its saveCurrentNote
toggleArchiveNote(s, input, ivs) ==
    /\ saveCurrentNoteBy(s, "archive",
                         [doc EXCEPT !.archived = IF doc.archived = "true" THEN "false"
                                                  ELSE "true"],
                         input, ivs)
    /\ UNCHANGED timerVars

\* the pending timer is left to run
scheduleAutoSaveNoCancel ==
    /\ timers' = timers \cup {autoSaveTimeout + 1}
    /\ autoSaveTimeout' = autoSaveTimeout + 1
    /\ unsaved' = unsaved + 1
    /\ UNCHANGED <<managerVars, cipherVars, noteVars, appState, scenario, viewVars>>

\* scheduleAutoSave, lines 776-783: clearTimeout of the timer last set, then
\* setTimeout, which returns the next timer id
scheduleAutoSave ==
    /\ timers' = (timers \ {autoSaveTimeout}) \cup {autoSaveTimeout + 1}
    /\ autoSaveTimeout' = autoSaveTimeout + 1
    /\ unsaved' = unsaved + 1
    /\ UNCHANGED <<managerVars, cipherVars, noteVars, appState, scenario, viewVars>>

\* the callback of timer t runs (lines 778-782), two seconds after it was
\* set unless clearTimeout removed it: saveCurrentNote if a note is open
autoSaveTimerFired(t, s, input, ivs) ==
    /\ t \in timers
    /\ timers' = timers \ {t}
    /\ unsaved' = 0
    /\ UNCHANGED autoSaveTimeout
    /\ IF currentNote = "doc"
       THEN saveCurrentNoteBy(s, "timer", doc, input, ivs)
       ELSE UNCHANGED <<managerVars, cipherVars, noteVars, appState, scenario, viewVars>>

\* a this.encrypt call of the encryptNote of a save settles: encryptNote
\* lines 251-263, read off the live note object, then saveCurrentNote line 446
saveEncryptSettled(s, ivs) ==
    /\ saves[s].pc = "encrypt"
    /\ SaveOutcome(s, NoteResumeLive(saves[s].sub, doc, key, ivs), saves[s].by, doc)
    /\ UNCHANGED <<managerVars, cipherVars, noteVars, scenario, timerVars, viewVars, isAuthenticated, notes,
                   filteredNotes, doc, storageUserId, load, locked>>

\* crypto.subtle.encrypt rejects inside a save
saveEncryptRejected(s) ==
    /\ saves[s].pc = "encrypt"
    /\ saves' = [saves EXCEPT ![s] = IdleSave]
    /\ SaveReturned(saves[s].by, doc)
    /\ UNCHANGED <<managerVars, cipherVars, noteVars, scenario, timerVars, viewVars, isAuthenticated, notes,
                   filteredNotes, doc, rows, storageUserId, load, locked>>

\* this.notes after lines 449-454; threw: findIndex's callback read .id of
\* null
NotesAfterSave(ns, cur, d) ==
    IF ns = <<>>
    THEN [threw |-> FALSE, notes |-> <<IF cur = "doc" THEN DocRef ELSE NoNote>>]
    ELSE IF cur = "null" \/ Deref(ns[1], d) = NoNote
         THEN [threw |-> TRUE, notes |-> ns]
    ELSE LET hit == {i \in 1..Len(ns) :
                       /\ \A j \in 1..i : Deref(ns[j], d) # NoNote
                       /\ Deref(ns[i], d).id = d.id}
             nulls == {i \in 1..Len(ns) : Deref(ns[i], d) = NoNote}
         IN  IF hit # {}
             THEN [threw |-> FALSE,
                   notes |-> [ns EXCEPT ![CHOOSE i \in hit : \A j \in hit : i <= j] = d]]
             ELSE IF nulls # {} THEN [threw |-> TRUE, notes |-> ns]
             ELSE [threw |-> FALSE, notes |-> <<DocRef>> \o ns]

\* storage.saveNote settles: saveCurrentNote lines 446-465
saveStored(s) ==
    /\ saves[s].pc = "saveNote"
    /\ saves' = [saves EXCEPT ![s] = IdleSave]
    /\ LET ns == NotesAfterSave(notes, currentNote, doc)
       IN  IF ~saves[s].ok \/ ns.threw
           THEN UNCHANGED <<notes, filteredNotes>>
           ELSE /\ notes' = ns.notes
                /\ filteredNotes' = ApplyCurrentFilter(ns.notes, doc, filteredNotes)
    /\ SaveReturned(saves[s].by, doc)
    /\ UNCHANGED <<managerVars, cipherVars, noteVars, scenario, timerVars, viewVars, isAuthenticated,
                   doc, rows, storageUserId, load, locked>>

\* deleteCurrentNote, lines 471-481, up to `await this.storage.deleteNote(id)`
\* (the user confirmed): the delete request of README.md lines 479-499 is
\* placed, and succeeds or fails
deleteCurrentNote(ok) ==
    /\ currentNote = "doc"
    /\ deletion.pc # "deleteNote"
    /\ deletion' = [pc |-> "deleteNote", id |-> doc.id, ok |-> ok]
    /\ rows' = IF ok THEN SelectSeq(rows, LAMBDA r : r.id # doc.id) ELSE rows
    /\ UNCHANGED <<managerVars, cipherVars, noteVars, scenario, timerVars, view, found,
                   isAuthenticated, notes, filteredNotes, currentNote, doc,
                   storageUserId, load, saves, locked>>

\* storage.deleteNote settles: deleteCurrentNote lines 483-504.  The filter
\* callback reads note.id and this.currentNote.id, and throws when either
\* is null; the catch reports the failure.  deletion keeps the id of a
\* delete that came to its end.
deleteSettled ==
    /\ deletion.pc = "deleteNote"
    /\ IF \/ ~deletion.ok
          \/ notes # <<>> /\ (currentNote = "null" \/ Deref(notes[1], doc) = NoNote)
          \/ \E i \in 1..Len(notes) : Deref(notes[i], doc) = NoNote
       THEN /\ deletion' = IdleDelete
            /\ UNCHANGED <<notes, filteredNotes, currentNote>>
       ELSE LET ns == SelectSeq(notes, LAMBDA e : Deref(e, doc).id # doc.id)
            IN  /\ notes' = ns
                /\ filteredNotes' = ApplyFilterUnder(ns, doc, filteredNotes, view, 0)
                /\ currentNote' = "null"
                /\ deletion' = [pc |-> "deleted", id |-> deletion.id]
    /\ UNCHANGED <<managerVars, cipherVars, noteVars, scenario, timerVars, view, found,
                   isAuthenticated, doc, rows, storageUserId, load, saves, locked>>

\* the Escape key, handleKeyboardShortcuts lines 790-812, closes the editor:
\* showWelcomeScreen, lines 869-878
closeEditor ==
    /\ isAuthenticated
    /\ currentNote' = "null"
    /\ UNCHANGED <<managerVars, cipherVars, noteVars, scenario, timerVars, viewVars,
                   isAuthenticated, notes, filteredNotes, doc, rows, storageUserId,
                   load, saves, locked>>

\* lockApp, lines 818-831
lockApp ==
    /\ clear
    /\ isAuthenticated' = FALSE
    /\ notes' = <<>>
    /\ filteredNotes' = <<>>
    /\ currentNote' = "null"
    /\ locked' = IF NoPending THEN "clean" ELSE "pending"
    /\ view' = [view EXCEPT !.selectedTags = <<>>, !.searchQuery = <<>>]
    /\ UNCHANGED <<cipherVars, noteVars, scenario, timerVars, found, deletion, doc, rows,
                   storageUserId, load, saves>>

\* ---------------------------------------------------------- specifications
Resume ==
    \/ \E c \in Slots, iv \in getRandomValues(IvLen) : deriveResolved(c, iv)
    \/ \E c \in Slots : deriveRejected(c)
    \/ \E c \in Slots, wf \in SUBSET {"key_test_"} : encryptResolved(c, wf)
    \/ \E c \in Slots : encryptRejected(c)
    \/ \E c \in Slots : decryptSettled(c)

StartInitialize ==
    \E c \in Slots, pw \in Passphrases, u \in Users :
        \E d \in SaltDraws(u) : initialize(c, pw, u, d[1], d[2])

StartCreateUserVault ==
    \E c \in Slots, pw \in Passphrases, u \in Users,
       rnd \in getRandomValues(SaltLen), wf \in SUBSET {"app_salt_"} :
        createUserVault(c, pw, u, rnd, wf)

\* The vault life cycle.  createVault / unlock are serialised by their
\* caller (one call in flight); clear may arrive while that call is suspended.
Next ==
    \/ NoPending /\ StartInitialize /\ UNCHANGED <<cipherVars, noteVars, appVars>>
    \/ NoPending /\ StartCreateUserVault /\ UNCHANGED <<cipherVars, noteVars, appVars>>
    \/ Resume /\ UNCHANGED <<cipherVars, noteVars, appVars>>
    \/ clear /\ UNCHANGED <<cipherVars, noteVars, appVars>>

Spec == Init /\ [][Next]_vars

\* The life cycle together with callers that seal and open envelopes while
\* no life-cycle call is in flight (the IV is the first random value).
NextUse ==
    \/ NoPending /\ StartInitialize /\ UNCHANGED <<cipherVars, noteVars, appVars>>
    \/ NoPending /\ StartCreateUserVault /\ UNCHANGED <<cipherVars, noteVars, appVars>>
    \/ Resume /\ UNCHANGED <<cipherVars, noteVars, appVars>>
    \/ clear /\ UNCHANGED <<cipherVars, noteVars, appVars>>
    \/ /\ NoPending
       /\ \E data \in Plaintexts :
             encrypt(data, FirstIv) /\ UNCHANGED <<plain, noteVars, appVars>>
    \/ /\ NoPending
       /\ \E env \in Envelopes : decrypt(env) /\ UNCHANGED <<plain, noteVars, appVars>>

SpecUse == Init /\ [][NextUse]_vars

\* The cipher as a function of its inputs: a manager holding any key that
\* initialize can install (or none), a caller with a string to seal and
\* possibly an envelope of that string sealed earlier under another key.
Keys == {deriveKey(p, s) : p \in Passphrases, s \in getRandomValues(SaltLen)}

InitCipher ==
    /\ localStorage = [k \in StorageKeys |-> Absent]
    /\ key \in {Null} \cup Keys
    /\ userId = ""
    /\ calls = [c \in Slots |-> IdleCall]
    /\ plain \in Strings
    /\ stored \in {Absent} \cup
           {EnvItem(Seal(k, iv, TextEncode(plain))) :
               k \in Keys \ {key}, iv \in getRandomValues(IvLen)}
    /\ lastRet = NoRet
    /\ created = [u \in AllUsers |-> Null]
    /\ validated = FALSE
    /\ out = NoOut
    /\ noteIn = NoNote
    /\ noteEnc = NoNote
    /\ noteOut = NoOut
    /\ task = IdleTask
    /\ AppConstructed
    /\ rows = <<>>

NextCipher ==
    \/ \E iv \in getRandomValues(IvLen) : encrypt(plain, iv) /\ UNCHANGED <<plain, noteVars, appVars>>
    \/ \E env \in Envelopes : decrypt(env) /\ UNCHANGED <<plain, noteVars, appVars>>

SpecCipher == InitCipher /\ [][NextCipher]_vars

\* ------------------------------------------------------------- properties
salt(u) == localStorage[saltKey(u)]
probe(u) == localStorage[testKey(u)]
marker(u) == localStorage[vaultKey(u)]

\* a createUserVault call enters (and wipes the vault) in this step
CreateStart ==
    \/ \E c \in Slots : calls[c].pc = "idle" /\ calls'[c].op = "createUserVault"
    \/ NoPending /\ lastRet'.op = "createUserVault" /\ lastRet'.failedAt = "salt"

\* a createUserVault call is running in this step
CreateStep ==
    \/ CreateStart
    \/ \E c \in Slots : calls[c].op = "createUserVault"

\* C1: an initialize with the passphrase of the vault created for u (the last
\* createUserVault(pw, u) returned true and none was started since), however
\* many clear() calls came in between, returns true unless a crypto step
\* fails, and unless a clear arrived during the call this.key is then the key
\* produced at creation, under which every envelope sealed since opens.
C1_UnlockAfterCreate ==
    (/\ lastRet.op = "initialize"
     /\ HasVault(lastRet.u)
     /\ lastRet.failedAt = "none")
    => (created[lastRet.u].pw = lastRet.pw
          => /\ lastRet.result
             /\ ~lastRet.stale => key = created[lastRet.u].k)

C1_Witness ==
    /\ lastRet.op = "initialize"
    /\ HasVault(lastRet.u)
    /\ created[lastRet.u].pw = lastRet.pw
    /\ lastRet.result
    /\ ~lastRet.stale
    /\ key = created[lastRet.u].k
    /\ \A iv \in getRandomValues(IvLen) : Opens(key, Seal(created[lastRet.u].k, iv, "note"))

\* C2: an initialize with a passphrase other than the one the vault of u was
\* created under returns false.
C2_WrongPassphraseRejected ==
    (/\ lastRet.op = "initialize"
     /\ HasVault(lastRet.u)
     /\ created[lastRet.u].pw # lastRet.pw)
    => ~lastRet.result

C2_Witness ==
    /\ lastRet.op = "initialize"
    /\ HasVault(lastRet.u)
    /\ created[lastRet.u].pw # lastRet.pw
    /\ lastRet.path = "decrypt"
    /\ ~lastRet.result

\* C3: after a wrong-passphrase initialize has returned false in a manager
\* that was not unlocked, no key is held (isInitialized() is false).
C3_RejectedUnlockHoldsNoKey ==
    (/\ lastRet.op = "initialize"
     /\ HasVault(lastRet.u)
     /\ created[lastRet.u].pw # lastRet.pw
     /\ ~lastRet.result
     /\ ~validated)
    => ~isInitialized

\* C4: when clear() ran while an initialize / createUserVault call was
\* pending, the manager holds no key once that call has completed.
C4_StaleKeyDiscarded ==
    (/\ lastRet.op \in {"initialize", "createUserVault"}
     /\ lastRet.stale)
    => key = Null

\* C5: the probe-bootstrapping branch is entered only when no probe is
\* persisted for the userId; while a probe exists no initialize step changes
\* it, and an initialize that found a probe returns exactly whether that probe
\* opens to the validation constant under the key derived from its passphrase
\* and the persisted salt.
C5_BootstrapOnlyWhenAbsent ==
    \A c \in Slots : calls[c].pc = "encrypt" => probe(calls[c].u) = Absent

C5_ResultFromProbe ==
    (/\ lastRet.op = "initialize"
     /\ lastRet.path = "decrypt")
    => /\ probe(lastRet.u) # Absent
       /\ lastRet.result =
             (/\ Opens(deriveKey(lastRet.pw, HexToSalt(salt(lastRet.u).hex)),
                       probe(lastRet.u).env)
              /\ TextDecode(probe(lastRet.u).env.data) = testMessage)

C5_ProbeNeverMutated ==
    /\ [](C5_BootstrapOnlyWhenAbsent /\ C5_ResultFromProbe)
    /\ [][\A u \in Users :
            (probe(u) # Absent /\ ~CreateStep) => probe(u)' = probe(u)]_vars

C5_Witness ==
    /\ lastRet.op = "initialize"
    /\ lastRet.path = "decrypt"
    /\ ~lastRet.result
    /\ probe(lastRet.u) # Absent
    /\ HasVault(lastRet.u)
    /\ probe(lastRet.u).env.key = created[lastRet.u].k

C7_NoHalfCreatedVaultMarked ==
    /\ \A u \in Users : marker(u) # Absent => (salt(u) # Absent /\ probe(u) # Absent)
    /\ (lastRet.op = "createUserVault"
          /\ lastRet.failedAt \in {"salt", "derive", "encrypt", "probe"})
       => (~lastRet.result /\ marker(lastRet.u) = Absent)
    /\ (lastRet.op = "createUserVault" /\ lastRet.result)
       => marker(lastRet.u) # Absent

C7_Witness ==
    /\ lastRet.op = "createUserVault"
    /\ lastRet.failedAt = "probe"
    /\ ~lastRet.result
    /\ salt(lastRet.u) # Absent
    /\ probe(lastRet.u) = Absent
    /\ marker(lastRet.u) = Absent

\* C8: after a createUserVault for u has returned false, what it left
\* persisted (a salt without a probe, or salt and probe without the marker) is
\* not a vault for unlock: an initialize for u that finds that salt does not
\* return true until a createUserVault for u has returned true.
C8_FailedCreateNotUnlockable ==
    (/\ lastRet.op = "initialize"
     /\ created[lastRet.u] = FailedCreate
     /\ ~lastRet.gen)
    => ~lastRet.result

\* C9 (as claimed): once a vault exists for u, no step replaces the persisted
\* salt of u.
C9_SaltStableForVault ==
    [][\A u \in Users : HasVault(u) => salt(u)' = salt(u)]_vars

\* C9 (amended): the persisted salt of a userId is stable under unlock and
\* lock: once a salt is persisted for u, initialize and clear never replace or
\* remove it, so the key of a created vault stays the one derived from its
\* passphrase and the persisted salt; only createUserVault replaces the salt.
C9_SaltStableUnderUnlockAndLock ==
    /\ [][\A u \in Users : (salt(u) # Absent /\ ~CreateStart) => salt(u)' = salt(u)]_vars
    /\ [](\A u \in Users :
            (HasVault(u) /\ NoPending) =>
                /\ salt(u) # Absent
                /\ created[u].k = deriveKey(created[u].pw, HexToSalt(salt(u).hex)))

C9_Witness ==
    /\ lastRet.op = "initialize"
    /\ ~lastRet.gen
    /\ lastRet.result
    /\ HasVault(lastRet.u)
    /\ key = deriveKey(created[lastRet.u].pw, HexToSalt(salt(lastRet.u).hex))

\* C10: outside the Unlocked state (no createUserVault / initialize has
\* returned true since construction or since the last clear), with no call
\* in flight, encrypt and decrypt throw the not-initialized error.
C10_CipherOnlyWhenUnlocked ==
    (/\ lastRet.op \in {"encrypt", "decrypt"}
     /\ NoPending
     /\ ~validated)
    => lastRet.threw

\* C11: clear() can be called in every state (with or without a key, with
\* or without a call in flight) and never fails; after it isInitialized() is
\* false, the persisted salt, probe and markers are what they were, and a
\* clear() in a state that holds no key leaves the manager as it was.
C11_ClearIdempotent ==
    /\ [](ENABLED clear)
    /\ [][clear =>
            /\ key' = Null
            /\ localStorage' = localStorage
            /\ key = Null => UNCHANGED <<key, userId, localStorage, stored>>]_vars

C11_Witness ==
    /\ key = Null
    /\ NoPending
    /\ lastRet = NoRet
    /\ \E u \in Users : salt(u) # Absent /\ probe(u) # Absent /\ marker(u) # Absent

\* The note functions as functions of their inputs: a manager holding any
\* key (or none), a caller with a plaintext note, and possibly a note object
\* to open: that note itself, or a row of it sealed earlier with its title
\* under one key and its other fields under another.  The caller seals its
\* note at most once, before it opens anything.
NoteTitles == {<<>>, <<97>>, <<55357>>}
NoteContents == {<<>>, <<233>>}
\* tag lists: the first n of the tags 'a', euro sign, e-acute, 'aa'
TagList == <<<<97>>, <<8364>>, <<233>>, <<97, 97>>>>
TagLists == {SubSeq(TagList, 1, n) : n \in 0..MaxTags}
PlainNotes ==
    {Note(Text(t), Text(c), [j \in 1..Len(g) |-> Text(g[j])], p, e) :
        t \in NoteTitles, c \in NoteContents, g \in TagLists,
        p \in BOOLEAN, e \in {"undefined", "false"}}

\* the keys of the passphrases under one salt
NoteKeys == {deriveKey(p, [i \in 1..SaltLen |-> ByteList[1]]) : p \in Passphrases}
SealField(k, f) == EnvItem(Seal(k, FirstIv, TextEncode(f.text)))
SealedNote(n, kt, kc) ==
    [n EXCEPT !.title = IF Truthy(n.title) THEN SealField(kt, n.title) ELSE n.title,
              !.content = IF Truthy(n.content) THEN SealField(kc, n.content)
                          ELSE n.content,
              !.tags = [j \in 1..Len(n.tags) |-> SealField(kc, n.tags[j])],
              !.encrypted = "true"]

InitNote ==
    /\ localStorage = [k \in StorageKeys |-> Absent]
    /\ key \in {Null} \cup NoteKeys
    /\ userId = ""
    /\ calls = [c \in Slots |-> IdleCall]
    /\ stored = Absent
    /\ lastRet = NoRet
    /\ created = [u \in AllUsers |-> Null]
    /\ validated = FALSE
    /\ plain = <<>>
    /\ out = NoOut
    /\ noteIn \in PlainNotes
    /\ noteEnc \in {NoNote, noteIn} \cup
           {SealedNote(noteIn, p[1], p[2]) :
               p \in {q \in NoteKeys \X NoteKeys : q # <<key, key>>}}
    /\ noteOut = NoOut
    /\ task = IdleTask
    /\ AppConstructed
    /\ rows = <<>>

NextNote ==
    \/ /\ lastRet = NoRet
       /\ \E ivs \in IvSeqs(EncryptCalls("encryptNote", noteIn, 1)) : encryptNote(ivs)
       /\ UNCHANGED appVars
    \/ decryptNote /\ UNCHANGED appVars
    \/ /\ \E ivs \in IvSeqs(EncryptCalls(task.op, task.src, task.at + 1)) :
             noteResolved(ivs)
       /\ UNCHANGED appVars
    \/ noteRejected /\ UNCHANGED appVars

SpecNote == InitNote /\ [][NextNote]_vars

\* The app in a browser that holds the vault of u1, created under the first
\* passphrase in an earlier session, and possibly a row saved then.  One
\* login and one loadNotes are in flight at a time; the user makes one note.
FirstSalt == [i \in 1..SaltLen |-> ByteList[1]]
VaultKey == deriveKey(PassphraseList[1], FirstSalt)
EarlierRows ==
    {NoteToSave(SealedNote(Note(Text(<<97>>), Text(c), <<>>, FALSE, "undefined"),
                           VaultKey, VaultKey), "u1") : c \in {<<>>, <<233>>}}

\* the IVs drawn by the encrypt calls of a save: what they are makes no
\* difference to what the app does, so one value stands for them
AppIvs(n) == [i \in 1..n |-> FirstIv]

InitApp ==
    /\ localStorage =
          [k \in StorageKeys |->
             IF k = saltKey("u1") THEN HexItem(SaltToHex(FirstSalt))
             ELSE IF k = testKey("u1")
                  THEN EnvItem(Seal(VaultKey, FirstIv, TextEncode(testMessage)))
             ELSE IF k = vaultKey("u1") THEN StrItem("true")
             ELSE IF k = currentUserKey THEN StrItem("u1")
             ELSE Absent]
    /\ key = Null
    /\ userId = ""
    /\ calls = [c \in Slots |-> IdleCall]
    /\ stored = Absent
    /\ lastRet = NoRet
    /\ created = [u \in AllUsers |->
                     IF u = "u1" THEN [pw |-> PassphraseList[1], k |-> VaultKey] ELSE Null]
    /\ validated = FALSE
    /\ plain = <<>>
    /\ out = NoOut
    /\ noteIn = NoNote
    /\ noteEnc = NoNote
    /\ noteOut = NoOut
    /\ task = IdleTask
    /\ AppConstructed
    /\ rows \in {<<>>} \cup {<<r>> : r \in EarlierRows}

\* The login form is submitted while the login screen is shown: not after
\* showMainScreen (line 858) removed it, until lockApp shows it again.
NextApp ==
    \/ /\ NoPending
       /\ load = IdleLoad
       /\ ~isAuthenticated
       /\ \E c \in Slots, pw \in Passphrases : handleLogin(c, pw)
    \/ \E c \in {d \in Slots : calls[d].pc # "idle"} : loginResumed(c)
    \/ \E ok \in BOOLEAN : loadGetAllSettled(ok)
    \/ loadDecryptSettled
    \/ /\ isAuthenticated
       /\ doc = NoNote
       /\ rows = <<>>
       /\ createNewNote
    \/ \E s \in SaveSlots, input \in EditorInputs :
          saveCurrentNote(s, input, AppIvs(1))
    \/ \E s \in {r \in SaveSlots : saves[r].pc = "encrypt"} :
          saveEncryptSettled(s, AppIvs(EncryptCalls("encryptNote", doc,
                                                    saves[s].sub.at + 1)))
    \/ \E s \in SaveSlots : saveEncryptRejected(s)
    \/ \E s \in SaveSlots : saveStored(s)
    \/ lockApp

SpecApp == InitApp /\ [][NextApp]_vars

\* Logging in and locking, with nothing else going on: the browser holds a
\* salt for u1 and either the whole vault created under the first passphrase
\* or nothing else (what a createUserVault whose probe write failed leaves).
InitLogin ==
    /\ \E whole \in BOOLEAN :
          /\ localStorage =
                [k \in StorageKeys |->
                   IF k = saltKey("u1") THEN HexItem(SaltToHex(FirstSalt))
                   ELSE IF ~whole THEN Absent
                   ELSE IF k = testKey("u1")
                        THEN EnvItem(Seal(VaultKey, FirstIv, TextEncode(testMessage)))
                   ELSE IF k = vaultKey("u1") THEN StrItem("true")
                   ELSE IF k = currentUserKey THEN StrItem("u1")
                   ELSE Absent]
          /\ created = [u \in AllUsers |->
                          IF u # "u1" THEN Null
                          ELSE IF whole THEN [pw |-> PassphraseList[1], k |-> VaultKey]
                          ELSE FailedCreate]
    /\ key = Null
    /\ userId = ""
    /\ calls = [c \in Slots |-> IdleCall]
    /\ stored = Absent
    /\ lastRet = NoRet
    /\ validated = FALSE
    /\ plain = <<>>
    /\ out = NoOut
    /\ noteIn = NoNote
    /\ noteEnc = NoNote
    /\ noteOut = NoOut
    /\ task = IdleTask
    /\ AppConstructed
    /\ rows \in {<<>>} \cup {<<r>> : r \in EarlierRows}

NextLogin ==
    \/ /\ NoPending
       /\ load = IdleLoad
       /\ ~isAuthenticated
       /\ \E c \in Slots, pw \in Passphrases : handleLogin(c, pw)
    \/ \E c \in {d \in Slots : calls[d].pc # "idle"} : loginResumed(c)
    \/ \E ok \in BOOLEAN : loadGetAllSettled(ok)
    \/ loadDecryptSettled
    \/ lockApp

SpecLogin == InitLogin /\ [][NextLogin]_vars

\* The life cycle for two userIds in one browser: serial calls, the first
\* random salt and IV, no failing write or crypto step.
NextUsers ==
    \/ /\ NoPending
       /\ \E c \in Slots, pw \in Passphrases, u \in AllUsers :
             initialize(c, pw, u, FirstSalt, {})
       /\ UNCHANGED <<cipherVars, noteVars, appVars>>
    \/ /\ NoPending
       /\ \E c \in Slots, pw \in Passphrases, u \in AllUsers :
             createUserVault(c, pw, u, FirstSalt, {})
       /\ UNCHANGED <<cipherVars, noteVars, appVars>>
    \/ (\E c \in Slots : deriveResolved(c, FirstIv))
          /\ UNCHANGED <<cipherVars, noteVars, appVars>>
    \/ (\E c \in Slots : encryptResolved(c, {}))
          /\ UNCHANGED <<cipherVars, noteVars, appVars>>
    \/ (\E c \in Slots : decryptSettled(c))
          /\ UNCHANGED <<cipherVars, noteVars, appVars>>
    \/ clear /\ UNCHANGED <<cipherVars, noteVars, appVars>>

SpecUsers == Init /\ [][NextUsers]_vars

\* createUserVault entered again while an earlier call is suspended at an
\* await: handleSetup (Project_Report.md, lines 249-295) sets no flag and
\* disables nothing between its clicks.  Each call draws its own salt.
NextOverlap ==
    \/ /\ \E c \in Slots, pw \in Passphrases, rnd \in getRandomValues(SaltLen) :
             createUserVault(c, pw, "u1", rnd, {})
       /\ UNCHANGED <<cipherVars, noteVars, appVars>>
    \/ (\E c \in Slots : deriveResolved(c, FirstIv))
          /\ UNCHANGED <<cipherVars, noteVars, appVars>>
    \/ (\E c \in Slots : deriveRejected(c))
          /\ UNCHANGED <<cipherVars, noteVars, appVars>>
    \/ (\E c \in Slots, wf \in SUBSET {"key_test_"} : encryptResolved(c, wf))
          /\ UNCHANGED <<cipherVars, noteVars, appVars>>
    \/ (\E c \in Slots : encryptRejected(c))
          /\ UNCHANGED <<cipherVars, noteVars, appVars>>

SpecOverlap == Init /\ [][NextOverlap]_vars

\* The life cycle over what an earlier session, or anything else that writes
\* to localStorage, left for u1: no salt, a salt, or an item that is no hex
\* string; no probe, a probe under a key of the first passphrase, or an item
\* that is no envelope.  The read of the salt may throw.
InitPersisted ==
    /\ \E s \in {Absent, HexItem(SaltToHex(FirstSalt)), NotHex, LineBreak},
          t \in {Absent, StrItem("true"),
                 EnvItem(Seal(deriveKey(PassphraseList[1], FirstSalt), FirstIv,
                              TextEncode(testMessage))),
                 EnvItem(Seal(deriveKey(PassphraseList[1], <<0>>), FirstIv,
                              TextEncode(testMessage)))} :
          localStorage = [k \in StorageKeys |->
                            IF k = saltKey("u1") THEN s
                            ELSE IF k = testKey("u1") THEN t
                            ELSE Absent]
    /\ key = Null
    /\ userId = ""
    /\ calls = [c \in Slots |-> IdleCall]
    /\ stored = Absent
    /\ lastRet = NoRet
    /\ created = [u \in AllUsers |-> Null]
    /\ validated = FALSE
    /\ plain = <<>>
    /\ out = NoOut
    /\ noteIn = NoNote
    /\ noteEnc = NoNote
    /\ noteOut = NoOut
    /\ task = IdleTask
    /\ AppConstructed
    /\ rows = <<>>

NextPersisted ==
    \/ /\ NoPending
       /\ \E c \in Slots, pw \in Passphrases, wf \in SUBSET {"getItem", "app_salt_"} :
             initialize(c, pw, "u1", FirstSalt, wf)
       /\ UNCHANGED <<cipherVars, noteVars, appVars>>
    \/ NoPending /\ StartCreateUserVault /\ UNCHANGED <<cipherVars, noteVars, appVars>>
    \/ Resume /\ UNCHANGED <<cipherVars, noteVars, appVars>>
    \/ clear /\ UNCHANGED <<cipherVars, noteVars, appVars>>

SpecPersisted == InitPersisted /\ [][NextPersisted]_vars

\* The sequence of one session after the other: createUserVault, encryptNote
\* of a note, decryptNote of what it returned, clear, initialize (as often
\* as it takes, with any passphrase), decryptNote again, clear, and so on.
\* One call is in flight at a time.  `ret` is the call that returned in
\* the step, `o` what the caller of decryptNote holds after it.
AfterReturn(sc, ret, o) ==
    IF sc.phase = "new" /\ ret.op = "createUserVault" /\ ret.result
    THEN [sc EXCEPT !.phase = "created"]
    ELSE IF sc.phase = "created" /\ ret.op = "encryptNote" /\ ~ret.threw
    THEN [sc EXCEPT !.phase = "stored"]
    ELSE IF sc.phase = "stored" /\ ret.op = "decryptNote"
    THEN [sc EXCEPT !.phase = "read", !.before = o]
    ELSE IF sc.phase = "locked" /\ ret.op = "initialize"
    THEN IF ret.result THEN [sc EXCEPT !.phase = "unlocked"]
         ELSE [sc EXCEPT !.failed = TRUE]
    ELSE IF sc.phase = "unlocked" /\ ret.op = "decryptNote"
    THEN [sc EXCEPT !.phase = "reread"]
    ELSE sc

SeqNotes == {n \in PlainNotes : ~n.pinned /\ n.encrypted = "undefined"}

InitSeq ==
    /\ localStorage = [k \in StorageKeys |-> Absent]
    /\ key = Null
    /\ userId = ""
    /\ calls = [c \in Slots |-> IdleCall]
    /\ stored = Absent
    /\ lastRet = NoRet
    /\ created = [u \in AllUsers |-> Null]
    /\ validated = FALSE
    /\ plain = <<>>
    /\ out = NoOut
    /\ noteIn \in SeqNotes
    /\ noteEnc = NoNote
    /\ noteOut = NoOut
    /\ task = IdleTask
    /\ AppConstructed
    /\ rows = <<>>

SeqIdle == NoPending /\ task = IdleTask

NextSeq ==
    \/ /\ SeqIdle
       /\ scenario.phase = "new"
       /\ StartCreateUserVault
       /\ scenario' = AfterReturn(scenario, lastRet', noteOut)
       /\ UNCHANGED <<cipherVars, noteVars, appState, timerVars, viewVars>>
    \/ /\ SeqIdle
       /\ scenario.phase = "created"
       /\ encryptNote(AppIvs(EncryptCalls("encryptNote", noteIn, 1)))
       /\ scenario' = AfterReturn(scenario, lastRet', noteOut')
       /\ UNCHANGED <<appState, timerVars, viewVars>>
    \/ /\ SeqIdle
       /\ scenario.phase \in {"stored", "unlocked"}
       /\ decryptNote
       /\ scenario' = AfterReturn(scenario, lastRet', noteOut')
       /\ UNCHANGED <<appState, timerVars, viewVars>>
    \/ /\ SeqIdle
       /\ scenario.phase \in {"read", "reread"}
       /\ clear
       /\ scenario' = [scenario EXCEPT !.phase = "locked"]
       /\ UNCHANGED <<cipherVars, noteVars, appState, timerVars, viewVars>>
    \/ /\ SeqIdle
       /\ scenario.phase = "locked"
       /\ StartInitialize
       /\ scenario' = AfterReturn(scenario, lastRet', noteOut)
       /\ UNCHANGED <<cipherVars, noteVars, appState, timerVars, viewVars>>
    \/ /\ Resume
       /\ scenario' = AfterReturn(scenario, lastRet', noteOut)
       /\ UNCHANGED <<cipherVars, noteVars, appState, timerVars, viewVars>>
    \/ /\ noteResolved(AppIvs(EncryptCalls(task.op, task.src, task.at + 1)))
       /\ scenario' = AfterReturn(scenario, lastRet', noteOut')
       /\ UNCHANGED <<appState, timerVars, viewVars>>
    \/ /\ noteRejected
       /\ scenario' = AfterReturn(scenario, lastRet', noteOut')
       /\ UNCHANGED <<appState, timerVars, viewVars>>

SpecSeq == InitSeq /\ [][NextSeq]_vars

\* encryptNote during the life cycle: the vault of u1 is unlocked under the
\* first passphrase and the caller holds a plaintext note.  While encryptNote
\* is suspended at a field, clear() may run and, after it, initialize with
\* any passphrase (one initialize at a time).
InitUnlocked(ns) ==
    /\ localStorage =
          [k \in StorageKeys |->
             IF k = saltKey("u1") THEN HexItem(SaltToHex(FirstSalt))
             ELSE IF k = testKey("u1")
                  THEN EnvItem(Seal(VaultKey, FirstIv, TextEncode(testMessage)))
             ELSE IF k = vaultKey("u1") THEN StrItem("true")
             ELSE IF k = currentUserKey THEN StrItem("u1")
             ELSE Absent]
    /\ created = [u \in AllUsers |->
                    IF u = "u1" THEN [pw |-> PassphraseList[1], k |-> VaultKey]
                    ELSE Null]
    /\ key = VaultKey
    /\ userId = "u1"
    /\ calls = [c \in Slots |-> IdleCall]
    /\ stored = Absent
    /\ lastRet = NoRet
    /\ validated = TRUE
    /\ plain = <<>>
    /\ out = NoOut
    /\ noteIn \in ns
    /\ noteEnc = NoNote
    /\ noteOut = NoOut
    /\ task = IdleTask
    /\ AppConstructed
    /\ rows = <<>>

InitRelock == InitUnlocked(SeqNotes)

NextRelock ==
    \/ /\ encryptNote(AppIvs(EncryptCalls("encryptNote", noteIn, 1)))
       /\ UNCHANGED appVars
    \/ /\ noteResolved(AppIvs(EncryptCalls(task.op, task.src, task.at + 1)))
       /\ UNCHANGED appVars
    \/ noteRejected /\ UNCHANGED appVars
    \/ clear /\ UNCHANGED <<cipherVars, noteVars, appVars>>
    \/ /\ ~validated
       /\ NoPending
       /\ StartInitialize
       /\ UNCHANGED <<cipherVars, noteVars, appVars>>
    \/ Resume /\ UNCHANGED <<cipherVars, noteVars, appVars>>

SpecRelock == InitRelock /\ [][NextRelock]_vars

\* A note through the store and back: under the key of the unlocked vault,
\* encryptNote of a plaintext note, saveNote of what it returned,
\* getAllNotes, decryptNote of the row.  The strings are well-formed UTF-16
\* (TextDecode(TextEncode(s)) = s for each of them).
RoundNotes ==
    {n \in PlainNotes :
        /\ n.title.text \in {<<>>, <<97>>}
        /\ n.content.text \in {<<>>, <<233>>}}

InitRound == InitUnlocked(RoundNotes)

\* StorageManager.saveNote(note) with the database open: the put succeeds
saveNote(note) ==
    /\ rows' = Put(rows, NoteToSave(note, storageUserId))
    /\ UNCHANGED <<managerVars, cipherVars, noteVars, isAuthenticated, notes,
                   filteredNotes, currentNote, doc, storageUserId, load, saves,
                   locked, scenario, timerVars, viewVars>>

\* StorageManager.getAllNotes() with no options: the caller takes the first
\* row it resolved to
getAllNotes ==
    /\ rows # <<>>
    /\ GetAllNotes(rows, storageUserId) # <<>>
    /\ noteEnc' = GetAllNotes(rows, storageUserId)[1]
    /\ UNCHANGED <<managerVars, cipherVars, noteIn, noteOut, task, appVars>>

NextRound ==
    \/ /\ rows = <<>>
       /\ noteEnc = NoNote
       /\ encryptNote(AppIvs(EncryptCalls("encryptNote", noteIn, 1)))
       /\ UNCHANGED appVars
    \/ /\ rows = <<>>
       /\ task = IdleTask
       /\ noteEnc # NoNote
       /\ saveNote(noteEnc)
    \/ /\ task = IdleTask
       /\ noteOut = NoOut
       /\ lastRet.op = "encryptNote"
       /\ getAllNotes
    \/ /\ rows # <<>>
       /\ noteOut = NoOut
       /\ lastRet.op = "encryptNote"
       /\ noteEnc = rows[1]
       /\ decryptNote
       /\ UNCHANGED appVars
    \/ /\ noteResolved(AppIvs(EncryptCalls(task.op, task.src, task.at + 1)))
       /\ UNCHANGED appVars

SpecRound == InitRound /\ [][NextRound]_vars

\* The store under two userIds: rows are written by saveNote under the
\* userId that setUserId set last, on top of a row without userId that an
\* earlier version may have left; then getAllNotes is called with any
\* options.
\* options.tags: none, 'a', euro sign, both
QueryTags ==
    {<<>>, <<Text(<<97>>)>>, <<Text(<<8364>>)>>, <<Text(<<8364>>), Text(<<97>>)>>}
QueryNotes ==
    {[Note(Text(<<97>>), Text(<<>>), g, p, "false") EXCEPT !.id = NoteIds[i]] :
        g \in {<<>>, <<Text(<<97>>)>>}, p \in BOOLEAN, i \in 1..MaxRows}
\* options.pinned: "undefined" when absent, else "true" / "false" for the boolean
QueryOptions == [pinned : {"undefined", "true", "false"}, tags : QueryTags]

InitQuery ==
    /\ InitUnlocked({NoNote})
    /\ rows \in {<<>>, <<NoteToSave([Note(Text(<<97>>), Text(<<>>), <<>>, TRUE, "false")
                                     EXCEPT !.id = "n0"],
                                    "undefined")>>}

\* StorageManager.setUserId(userId), lines 283-285
setUserId(u) ==
    /\ storageUserId' = u
    /\ UNCHANGED <<managerVars, cipherVars, noteVars, isAuthenticated, notes,
                   filteredNotes, currentNote, doc, rows, load, saves, locked,
                   scenario, timerVars, viewVars>>

\* StorageManager.getAllNotes(options) with the database open resolves
getAllNotesWith(options) ==
    /\ found' = [kind |-> "rows", options |-> options,
                 rows |-> GetAllNotesWith(rows, storageUserId, options)]
    /\ UNCHANGED <<managerVars, cipherVars, noteVars, appState, scenario, timerVars,
                   view, deletion>>

NextQuery ==
    \/ /\ found = NoOut
       /\ \E u \in AllUsers : setUserId(u)
    \/ /\ found = NoOut
       /\ \E n \in QueryNotes : saveNote(n)
    \/ \E o \in QueryOptions : getAllNotesWith(o)

SpecQuery == InitQuery /\ [][NextQuery]_vars

\* The note list under the filters: the app is unlocked and loadNotes has
\* filled this.notes with decrypted notes; the user picks filter tabs,
\* toggles tags and types into the search box.
\* the i-th note was updated at time i
ListedNotes(i) ==
    {[Note(Text(<<65, 97>>), Text(<<>>), g, p, "false")
         EXCEPT !.id = NoteIds[i], !.archived = a, !.updatedAt = i] :
        g \in {<<>>, <<Text(<<97>>)>>}, p \in BOOLEAN, a \in {"true", "false"}}
NoteLists ==
    UNION {{ns \in [1..n -> UNION {ListedNotes(i) : i \in 1..n}] :
               \A i \in 1..n : ns[i].id = NoteIds[i]} : n \in 0..MaxRows}
Filters == {"all", "pinned", "recent", "archived"}
SearchInputs == {<<>>, <<32>>, <<97>>, <<65, 32>>, <<98>>}
FilterTags == {Text(<<97>>), Text(<<8364>>)}
DayAgos == {0, 1}

InitFilter ==
    /\ localStorage =
          [k \in StorageKeys |->
             IF k = saltKey("u1") THEN HexItem(SaltToHex(FirstSalt))
             ELSE IF k = testKey("u1")
                  THEN EnvItem(Seal(VaultKey, FirstIv, TextEncode(testMessage)))
             ELSE IF k = vaultKey("u1") THEN StrItem("true")
             ELSE IF k = currentUserKey THEN StrItem("u1")
             ELSE Absent]
    /\ key = VaultKey
    /\ userId = "u1"
    /\ calls = [c \in Slots |-> IdleCall]
    /\ stored = Absent
    /\ lastRet = NoRet
    /\ created = [u \in AllUsers |->
                     IF u = "u1" THEN [pw |-> PassphraseList[1], k |-> VaultKey] ELSE Null]
    /\ validated = TRUE
    /\ plain = <<>>
    /\ out = NoOut
    /\ noteIn = NoNote
    /\ noteEnc = NoNote
    /\ noteOut = NoOut
    /\ task = IdleTask
    /\ isAuthenticated = TRUE
    /\ notes \in NoteLists
    /\ filteredNotes = ApplyCurrentFilter(notes, NoNote, <<>>)
    /\ currentNote = "null"
    /\ doc = NoNote
    /\ storageUserId = "u1"
    /\ load = IdleLoad
    /\ saves = [s \in SaveSlots |-> IdleSave]
    /\ locked = "no"
    /\ scenario = NoScenario
    /\ autoSaveTimeout = 0
    /\ timers = {}
    /\ unsaved = 0
    /\ view = AllNotesView
    /\ found = NoOut
    /\ deletion = IdleDelete
    /\ rows = <<>>

\* what a handler leaves after it changed the view to v: applyCurrentFilter
ViewChanged(v, dayAgo) ==
    /\ view' = v
    /\ filteredNotes' = ApplyFilterUnder(notes, doc, filteredNotes, v, dayAgo)
    /\ UNCHANGED <<managerVars, cipherVars, noteVars, scenario, timerVars, found, deletion,
                   isAuthenticated, notes, currentNote, doc, rows, storageUserId, load,
                   saves, locked>>

\* setFilter(filter), lines 551-561
setFilter(filter, dayAgo) ==
    ViewChanged([view EXCEPT !.currentFilter = filter], dayAgo)

\* handleSearch(query), lines 541-546
handleSearch(query, dayAgo) ==
    ViewChanged([view EXCEPT !.searchQuery = trim(query)], dayAgo)

\* toggleTagFilter(tag), lines 696-707
toggleTagFilter(tag, dayAgo) ==
    ViewChanged([view EXCEPT !.selectedTags =
                    IF \E i \in 1..Len(@) : @[i] = tag
                    THEN SelectSeq(@, LAMBDA t : t # tag)
                    ELSE Append(@, tag)],
                dayAgo)

NextFilter ==
    \/ \E f \in Filters, t \in DayAgos : setFilter(f, t)
    \/ \E q \in SearchInputs, t \in DayAgos : handleSearch(q, t)
    \/ \E g \in FilterTags, t \in DayAgos : toggleTagFilter(g, t)

SpecFilter == InitFilter /\ [][NextFilter]_vars

\* loadNotes over a store of several rows: handleLogin has validated the
\* first passphrase and called loadNotes.  A row is of u1 or of another
\* user, unencrypted or sealed; its title and its other fields are sealed
\* under the vault key or under the key of another passphrase.
OtherKey == deriveKey(PassphraseList[2], FirstSalt)
StoredRows(id) ==
    {[NoteToSave(n, uid) EXCEPT !.id = id] :
        uid \in {"u1", "u2"},
        n \in {Note(Text(<<97>>), Text(c), <<>>, FALSE, "undefined") : c \in {<<>>, <<233>>}}
              \cup {SealedNote(Note(Text(<<97>>), Text(c), <<>>, FALSE, "undefined"),
                               p[1], p[2]) :
                       c \in {<<>>, <<233>>},
                       p \in {<<VaultKey, VaultKey>>, <<VaultKey, OtherKey>>,
                              <<OtherKey, OtherKey>>}}}
Stores ==
    UNION {{st \in [1..n -> UNION {StoredRows(NoteIds[i]) : i \in 1..n}] :
               \A i \in 1..n : st[i].id = NoteIds[i]} : n \in 0..MaxRows}

InitLoad ==
    /\ localStorage =
          [k \in StorageKeys |->
             IF k = saltKey("u1") THEN HexItem(SaltToHex(FirstSalt))
             ELSE IF k = testKey("u1")
                  THEN EnvItem(Seal(VaultKey, FirstIv, TextEncode(testMessage)))
             ELSE IF k = vaultKey("u1") THEN StrItem("true")
             ELSE IF k = currentUserKey THEN StrItem("u1")
             ELSE Absent]
    /\ key = VaultKey
    /\ userId = "u1"
    /\ calls = [c \in Slots |-> IdleCall]
    /\ stored = Absent
    /\ lastRet = NoRet
    /\ created = [u \in AllUsers |->
                     IF u = "u1" THEN [pw |-> PassphraseList[1], k |-> VaultKey] ELSE Null]
    /\ validated = TRUE
    /\ plain = <<>>
    /\ out = NoOut
    /\ noteIn = NoNote
    /\ noteEnc = NoNote
    /\ noteOut = NoOut
    /\ task = IdleTask
    /\ isAuthenticated = TRUE
    /\ notes = <<>>
    /\ filteredNotes = <<>>
    /\ currentNote = "null"
    /\ doc = NoNote
    /\ storageUserId = "u1"
    /\ load = [pc |-> "getAll"]
    /\ saves = [s \in SaveSlots |-> IdleSave]
    /\ locked = "no"
    /\ scenario = NoScenario
    /\ autoSaveTimeout = 0
    /\ timers = {}
    /\ unsaved = 0
    /\ view = AllNotesView
    /\ found = NoOut
    /\ deletion = IdleDelete
    /\ rows \in Stores

NextLoad ==
    \/ \E ok \in BOOLEAN : loadGetAllSettled(ok)
    \/ loadDecryptSettled

SpecLoad == InitLoad /\ [][NextLoad]_vars

\* Archiving the note of the editor: the vault of u1 is unlocked and the
\* store is empty; the note is created, archived or unarchived with the
\* archive button, and read back by the loadNotes of the next login.
InitArchive ==
    /\ localStorage =
          [k \in StorageKeys |->
             IF k = saltKey("u1") THEN HexItem(SaltToHex(FirstSalt))
             ELSE IF k = testKey("u1")
                  THEN EnvItem(Seal(VaultKey, FirstIv, TextEncode(testMessage)))
             ELSE IF k = vaultKey("u1") THEN StrItem("true")
             ELSE IF k = currentUserKey THEN StrItem("u1")
             ELSE Absent]
    /\ key = VaultKey
    /\ userId = "u1"
    /\ calls = [c \in Slots |-> IdleCall]
    /\ stored = Absent
    /\ lastRet = NoRet
    /\ created = [u \in AllUsers |->
                     IF u = "u1" THEN [pw |-> PassphraseList[1], k |-> VaultKey] ELSE Null]
    /\ validated = TRUE
    /\ plain = <<>>
    /\ out = NoOut
    /\ noteIn = NoNote
    /\ noteEnc = NoNote
    /\ noteOut = NoOut
    /\ task = IdleTask
    /\ isAuthenticated = TRUE
    /\ notes = <<>>
    /\ filteredNotes = <<>>
    /\ currentNote = "null"
    /\ doc = NoNote
    /\ storageUserId = "u1"
    /\ load = IdleLoad
    /\ saves = [s \in SaveSlots |-> IdleSave]
    /\ locked = "no"
    /\ scenario = NoScenario
    /\ autoSaveTimeout = 0
    /\ timers = {}
    /\ unsaved = 0
    /\ view = AllNotesView
    /\ found = NoOut
    /\ deletion = IdleDelete
    /\ rows = <<>>

NextArchive ==
    \/ /\ isAuthenticated
       /\ doc = NoNote
       /\ createNewNote
    \/ \E s \in SaveSlots, input \in EditorInputs :
          toggleArchiveNote(s, input, AppIvs(1))
    \/ \E s \in {r \in SaveSlots : saves[r].pc = "encrypt"} :
          saveEncryptSettled(s, AppIvs(EncryptCalls("encryptNote", doc,
                                                    saves[s].sub.at + 1)))
    \/ \E s \in SaveSlots : saveStored(s)
    \/ lockApp
    \/ /\ NoPending
       /\ load = IdleLoad
       /\ ~isAuthenticated
       /\ \E c \in Slots, pw \in Passphrases : handleLogin(c, pw)
    \/ \E c \in {d \in Slots : calls[d].pc # "idle"} : loginResumed(c)
    \/ \E ok \in BOOLEAN : loadGetAllSettled(ok)
    \/ loadDecryptSettled

SpecArchive == InitArchive /\ [][NextArchive]_vars

\* Typing into the editor of an unlocked vault: every `input` event of the
\* title, content and tags fields calls scheduleAutoSave (lines 221-224);
\* the timers run while the note is edited, saved and the app is locked.
\* A timer that is pending fires in the end, and a promise settles.
NextTimer ==
    \/ /\ isAuthenticated
       /\ doc = NoNote
       /\ createNewNote
    \/ /\ currentNote = "doc"
       /\ autoSaveTimeout < MaxTimers
       /\ scheduleAutoSave
    \/ \E t \in timers, s \in SaveSlots, input \in EditorInputs :
          autoSaveTimerFired(t, s, input, AppIvs(1))
    \/ \E s \in {r \in SaveSlots : saves[r].pc = "encrypt"} :
          saveEncryptSettled(s, AppIvs(EncryptCalls("encryptNote", doc,
                                                    saves[s].sub.at + 1)))
    \/ \E s \in SaveSlots : saveStored(s)
    \/ lockApp

TimerFires ==
    \E t \in timers, s \in SaveSlots, input \in EditorInputs :
        autoSaveTimerFired(t, s, input, AppIvs(1))

SaveGoesOn ==
    \/ \E s \in {r \in SaveSlots : saves[r].pc = "encrypt"} :
          saveEncryptSettled(s, AppIvs(EncryptCalls("encryptNote", doc,
                                                    saves[s].sub.at + 1)))
    \/ \E s \in SaveSlots : saveStored(s)

SpecTimer ==
    InitArchive /\ [][NextTimer]_vars /\ WF_vars(TimerFires) /\ WF_vars(SaveGoesOn)

\* Deleting the note that is open, while it is edited and saved: the save
\* button, the auto-save timer and the delete button, in any order, with the
\* promises settling at any time.
NextDelete ==
    \/ /\ isAuthenticated
       /\ doc = NoNote
       /\ createNewNote
    \/ \E s \in SaveSlots, input \in EditorInputs : saveCurrentNote(s, input, AppIvs(1))
    \/ /\ currentNote = "doc"
       /\ autoSaveTimeout < MaxTimers
       /\ scheduleAutoSave
    \/ \E t \in timers, s \in SaveSlots, input \in EditorInputs :
          autoSaveTimerFired(t, s, input, AppIvs(1))
    \/ \E s \in {r \in SaveSlots : saves[r].pc = "encrypt"} :
          saveEncryptSettled(s, AppIvs(EncryptCalls("encryptNote", doc,
                                                    saves[s].sub.at + 1)))
    \/ \E s \in SaveSlots : saveStored(s)
    \/ \E ok \in BOOLEAN : deleteCurrentNote(ok)
    \/ deleteSettled

SpecDelete == InitArchive /\ [][NextDelete]_vars

\* Typing into the editor and closing it with Escape, while the auto-save
\* timers run and the saves settle.
NextEdit ==
    \/ /\ isAuthenticated
       /\ doc = NoNote
       /\ createNewNote
    \/ /\ currentNote = "doc"
       /\ autoSaveTimeout < MaxTimers
       /\ scheduleAutoSave
    \/ \E t \in timers, s \in SaveSlots, input \in EditorInputs :
          autoSaveTimerFired(t, s, input, AppIvs(1))
    \/ \E s \in {r \in SaveSlots : saves[r].pc = "encrypt"} :
          saveEncryptSettled(s, AppIvs(EncryptCalls("encryptNote", doc,
                                                    saves[s].sub.at + 1)))
    \/ \E s \in SaveSlots : saveStored(s)
    \/ closeEditor

SpecEdit == InitArchive /\ [][NextEdit]_vars

\* Saving the open note while an import reloads the list.
NextImport ==
    \/ /\ isAuthenticated
       /\ doc = NoNote
       /\ createNewNote
    \/ \E s \in SaveSlots, input \in EditorInputs : saveCurrentNote(s, input, AppIvs(1))
    \/ \E s \in {r \in SaveSlots : saves[r].pc = "encrypt"} :
          saveEncryptSettled(s, AppIvs(EncryptCalls("encryptNote", doc,
                                                    saves[s].sub.at + 1)))
    \/ \E s \in SaveSlots : saveStored(s)
    \/ handleImportFile
    \/ \E ok \in BOOLEAN : importGetAllSettled(ok)
    \/ importDecryptSettled

SpecImport == InitArchive /\ [][NextImport]_vars

\* The setup screen of a browser without a vault marker and one submission
\* of its form: an earlier attempt left nothing, a salt, or a salt and a
\* probe, and the database may hold a note of an earlier vault.
InitSetup ==
    /\ \E left \in {"nothing", "salt", "probe"} :
          /\ localStorage =
                [k \in StorageKeys |->
                   IF left # "nothing" /\ k = saltKey("u1")
                   THEN HexItem(SaltToHex(FirstSalt))
                   ELSE IF left = "probe" /\ k = testKey("u1")
                        THEN EnvItem(Seal(VaultKey, FirstIv, TextEncode(testMessage)))
                   ELSE Absent]
          /\ created = [u \in AllUsers |->
                          IF u = "u1" /\ left # "nothing" THEN FailedCreate ELSE Null]
    /\ key = Null
    /\ userId = ""
    /\ calls = [c \in Slots |-> IdleCall]
    /\ stored = Absent
    /\ lastRet = NoRet
    /\ validated = FALSE
    /\ plain = <<>>
    /\ out = NoOut
    /\ noteIn = NoNote
    /\ noteEnc = NoNote
    /\ noteOut = NoOut
    /\ task = IdleTask
    /\ AppConstructed
    /\ rows \in {<<>>} \cup {<<r>> : r \in EarlierRows}

NextSetup ==
    \/ /\ NoPending
       /\ load = IdleLoad
       /\ ~isAuthenticated
       /\ lastRet = NoRet
       /\ \E c \in Slots, passphrase \in SetupStrings :
             \E confirmPassphrase \in Confirmations(passphrase) :
                handleSetup(c, passphrase, confirmPassphrase)
    \/ \E c \in {d \in Slots : calls[d].pc # "idle"} : setupResumed(c)
    \/ \E ok \in BOOLEAN : loadGetAllSettled(ok)
    \/ loadDecryptSettled

SpecSetup == InitSetup /\ [][NextSetup]_vars

\* C12: decrypt of the envelope that encrypt returned for a string, under
\* the key it was sealed with, returns exactly that string.
C12_DecryptInvertsEncrypt ==
    (/\ lastRet.op = "decrypt"
     /\ key # Null
     /\ stored # Absent
     /\ stored.env = Seal(key, stored.env.iv, TextEncode(plain)))
    => out = Text(plain)

\* an encrypt step that returned an envelope while the caller held an
\* envelope of the same string sealed under the same key
SecondEncrypt ==
    /\ lastRet'.op = "encrypt"
    /\ ~lastRet'.threw
    /\ stored # Absent
    /\ stored.env.key = key

C14_WrongKeyThrows ==
    (/\ lastRet.op = "decrypt"
     /\ key # Null
     /\ stored # Absent
     /\ stored.env.key # key)
    => (lastRet.threw /\ out = Threw)

C14_Witness ==
    /\ lastRet.op = "decrypt"
    /\ key # Null
    /\ stored # Absent
    /\ stored.env.key # key
    /\ stored.env.key.pw = key.pw
    /\ plain # <<>>
    /\ out = Threw

\* every sealed field of the note object is sealed under k
SealedUnder(n, k) ==
    /\ n.title.kind = "env" => n.title.env.key = k
    /\ n.content.kind = "env" => n.content.env.key = k
    /\ \A j \in 1..Len(n.tags) : n.tags[j].kind = "env" => n.tags[j].env.key = k

\* every field of the note object is a plain string
AllPlain(n) ==
    /\ n.title.kind = "text"
    /\ n.content.kind = "text"
    /\ \A j \in 1..Len(n.tags) : n.tags[j].kind = "text"

\* C15: decryptNote of the note object encryptNote made of a plaintext note,
\* under the same key, returns a note with that note's title, content and
\* tags (in order) and its id, pinned, archived, createdAt and updatedAt.
C15_NoteRoundTrip ==
    (/\ lastRet.op = "decryptNote"
     /\ key # Null
     /\ noteEnc.encrypted = "true"
     /\ SealedUnder(noteEnc, key))
    => /\ noteOut.kind = "note"
       /\ noteOut.note.title = noteIn.title
       /\ noteOut.note.content = noteIn.content
       /\ noteOut.note.tags = noteIn.tags
       /\ noteOut.note.id = noteIn.id
       /\ noteOut.note.pinned = noteIn.pinned
       /\ noteOut.note.archived = noteIn.archived
       /\ noteOut.note.createdAt = noteIn.createdAt
       /\ noteOut.note.updatedAt = noteIn.updatedAt

\* C16: decryptNote of a note object whose encrypted flag is false or absent
\* returns that object as it is, at once and without a crypto call, also
\* when the manager holds no key.
C16_UnencryptedNoteUnchanged ==
    (/\ lastRet.op = "decryptNote"
     /\ noteEnc.encrypted \in {"false", "undefined"})
    => /\ ~lastRet.threw
       /\ lastRet.path = "unchanged"
       /\ noteOut = Returned(noteEnc)
       /\ task = IdleTask

C16_Witness ==
    /\ lastRet.op = "decryptNote"
    /\ key = Null
    /\ noteEnc.encrypted = "undefined"
    /\ noteEnc.title # Text(<<>>)
    /\ noteEnc.tags # <<>>
    /\ noteOut = Returned(noteEnc)

\* C17: decryptNote of a note object flagged encrypted either throws or
\* returns a note in which title, content and every tag are plain strings
\* and the flag is false; no step of the call changes the object it was given.
C17_DecryptNoteAllOrNothing ==
    /\ []((lastRet.op = "decryptNote" /\ noteEnc.encrypted = "true")
            => \/ lastRet.threw /\ noteOut = Threw
               \/ /\ ~lastRet.threw
                  /\ noteOut.kind = "note"
                  /\ AllPlain(noteOut.note)
                  /\ noteOut.note.encrypted = "false")
    /\ [][(task.op = "decryptNote" \/ lastRet'.op = "decryptNote")
            => noteEnc' = noteEnc]_vars

\* the title opens under the active key and the content does not
C17_Witness ==
    /\ lastRet.op = "decryptNote"
    /\ lastRet.threw
    /\ noteOut = Threw
    /\ key # Null
    /\ noteEnc.encrypted = "true"
    /\ noteEnc.title.kind = "env"
    /\ noteEnc.title.env.key = key
    /\ noteEnc.content.kind = "env"
    /\ noteEnc.content.env.key # key

PlainFields(r) ==
    {f \in {"title", "content"} : r[f].kind = "text" /\ r[f] # Text(<<>>)}
        \cup {"tags" : j \in {i \in 1..Len(r.tags) : r.tags[i].kind = "text"}}

\* C19: every note row in storage has encrypted = true and holds an envelope
\* in place of each non-empty title, content and tag, whatever the
\* interleaving of saves with lock and login events.
C19_RowsHoldOnlyEnvelopes ==
    \A i \in 1..Len(rows) : rows[i].encrypted = "true" /\ PlainFields(rows[i]) = {}

\* the app holds a note in this.notes, this.filteredNotes or this.currentNote
HoldsDecrypted ==
    \/ \E i \in 1..Len(notes) : notes[i] # NoNote
    \/ \E i \in 1..Len(filteredNotes) : filteredNotes[i] # NoNote
    \/ currentNote # "null"

\* C20: from a lockApp that found no login in flight until the next login
\* is started, the key is null and notes, filteredNotes and currentNote hold
\* no note, also when loadNotes or a save was in flight at the lock.
C20_ClearedWhileLocked ==
    locked = "clean" => key = Null /\ ~HoldsDecrypted

\* C30: whenever an initialize or createUserVault for u has returned true,
\* the vault marker of u is persisted (so that checkUserStatus shows the
\* login screen at the next start).
C30_UnlockedImpliesMarker ==
    (/\ lastRet.op \in {"initialize", "createUserVault"}
     /\ lastRet.result)
    => marker(lastRet.u) # Absent

\* C26: the key an initialize / createUserVault call for u derives and works
\* with is deriveKey of its passphrase and the salt persisted for u, and an
\* unlock with the passphrase of the vault created for u derives the very key
\* derived at creation (two derivations from identical inputs).
C26_DeriveKeyDeterministic ==
    \A c \in Slots :
        calls[c].pc \in {"encrypt", "decrypt"} =>
            /\ salt(calls[c].u) # Absent
            /\ calls[c].k = deriveKey(calls[c].pw, HexToSalt(salt(calls[c].u).hex))
            /\ ~calls[c].stale => key = calls[c].k
            /\ (/\ calls[c].op = "initialize"
                /\ HasVault(calls[c].u)
                /\ calls[c].pw = created[calls[c].u].pw)
               => calls[c].k = created[calls[c].u].k

C26_Witness ==
    \E c \in Slots :
        /\ calls[c].pc = "decrypt"
        /\ calls[c].op = "initialize"
        /\ HasVault(calls[c].u)
        /\ calls[c].pw = created[calls[c].u].pw
        /\ key = created[calls[c].u].k
        /\ key.salt = HexToSalt(salt(calls[c].u).hex)

\* C27: an initialize(pw, u) that found a salt persisted for u but no probe
\* returns true unless the probe write or a crypto step failed, and then the
\* probe of u is the validation constant sealed under the key derived from
\* pw and that salt; an initialize that finds a probe returns true only for
\* the passphrase the probe was sealed under.
C27_BootstrapAcceptsAndBinds ==
    /\ (/\ lastRet.op = "initialize"
        /\ ~lastRet.gen
        /\ lastRet.path = "bootstrap")
       => /\ lastRet.result = (lastRet.failedAt = "none")
          /\ lastRet.result =>
                /\ probe(lastRet.u).kind = "env"
                /\ probe(lastRet.u).env.key =
                      deriveKey(lastRet.pw, HexToSalt(salt(lastRet.u).hex))
                /\ probe(lastRet.u).env.data = TextEncode(testMessage)
    /\ (/\ lastRet.op = "initialize"
        /\ lastRet.path = "decrypt")
       => (lastRet.result => lastRet.pw = probe(lastRet.u).env.key.pw)

C27_Witness ==
    /\ lastRet.op = "initialize"
    /\ ~lastRet.gen
    /\ lastRet.path = "bootstrap"
    /\ lastRet.result
    /\ created[lastRet.u] = FailedCreate
    /\ probe(lastRet.u).kind = "env"
    /\ probe(lastRet.u).env.key.pw = lastRet.pw

\* an initialize call for a userId with salt and probe persisted, made with
\* a passphrase whose key is not the one the probe was sealed under
RejectedCall(call) ==
    /\ call.op = "initialize"
    /\ salt(call.u) # Absent
    /\ probe(call.u) # Absent
    /\ probe(call.u).env.key # deriveKey(call.pw, HexToSalt(salt(call.u).hex))

\* C29: with salt and probe persisted for u, no step of an initialize(pw, u)
\* with a wrong passphrase (nor of the handleLogin that awaits it) changes the
\* persisted salt, probe, vault marker or current-user marker or a stored
\* note, and the call returns false.
C29_RejectedUnlockWritesNothing ==
    /\ [][\A c \in Slots :
            (/\ calls'[c] # calls[c]
             /\ RejectedCall(calls[c]) \/ RejectedCall(calls'[c]))
            => /\ localStorage' = localStorage
               /\ rows' = rows]_vars
    /\ []((RejectedCall(lastRet) /\ lastRet.path = "decrypt") => ~lastRet.result)

C29_Witness ==
    /\ RejectedCall(lastRet)
    /\ lastRet.path = "decrypt"
    /\ ~lastRet.result
    /\ rows # <<>>
    /\ salt(lastRet.u) # Absent
    /\ probe(lastRet.u) # Absent
    /\ marker(lastRet.u) # Absent
    /\ localStorage[currentUserKey] # Absent

\* a stored row that decryptNote hands back: it is not flagged encrypted, or
\* each of its non-empty fields is an envelope sealed under k
OpensUnder(r, k) ==
    \/ r.encrypted # "true"
    \/ /\ k # Null
       /\ \A f \in {r.title, r.content} \cup {r.tags[j] : j \in 1..Len(r.tags)} :
             f # Text(<<>>) => (f.kind = "env" /\ f.env.key = k)

\* the plaintext form of such a row
OpenField(f) == IF f.kind = "env" THEN Text(TextDecode(f.env.data)) ELSE f
DecryptedForm(r) ==
    IF r.encrypted # "true" THEN r
    ELSE [r EXCEPT !.title = OpenField(r.title), !.content = OpenField(r.content),
                   !.tags = [j \in 1..Len(r.tags) |-> OpenField(r.tags[j])],
                   !.encrypted = "false"]

\* the rows of user uid that open under k, decrypted, in storage order
RECURSIVE Loadable(_, _, _)
Loadable(store, uid, k) ==
    IF store = <<>> THEN <<>>
    ELSE IF Head(store).userId = uid /\ OpensUnder(Head(store), k)
         THEN <<DecryptedForm(Head(store))>> \o Loadable(Tail(store), uid, k)
    ELSE Loadable(Tail(store), uid, k)

\* C21: when loadNotes has gone through the rows that getAllNotes gave it,
\* this.notes holds exactly the decrypted forms of the current user's rows
\* that open under the key, in storage order; a row that does not open is
\* left out and the rows after it are still loaded.
C21_LoadIsolatesFailures ==
    [][(/\ load.pc # "idle"
        /\ load'.pc = "idle"
        /\ ~loadGetAllSettled(FALSE))
       => notes' = Loadable(rows, storageUserId, key)]_vars

C21_Witness ==
    /\ load = IdleLoad
    /\ Len(rows) >= 2
    /\ rows[1].userId = storageUserId
    /\ rows[1].encrypted = "true"
    /\ ~OpensUnder(rows[1], key)
    /\ rows[1].title.env.key = key
    /\ OpensUnder(rows[2], key)
    /\ rows[2].encrypted = "true"
    /\ notes = <<DecryptedForm(rows[2])>>

\* the step is one of a createUserVault / initialize call made for userId u
StepFor(u) ==
    \/ \E c \in Slots : calls'[c] # calls[c] /\ u \in {calls[c].u, calls'[c].u}
    \/ lastRet'.u = u

\* the persisted items of a userId
Items(u) == <<salt(u), probe(u), marker(u)>>

\* C22: a step of a createUserVault or initialize call made for userId u, and
\* a clear, leave the persisted salt, probe and vault marker of every other
\* userId as they were.
C22_ItemsIsolatedPerUser ==
    [][\A u \in AllUsers :
         (StepFor(u) \/ clear)
         => \A v \in AllUsers \ {u} : Items(v)' = Items(v)]_vars

C22_Witness ==
    /\ lastRet.op = "createUserVault"
    /\ lastRet.u = "u2"
    /\ lastRet.result
    /\ HasVault("u1")
    /\ \A u \in AllUsers : salt(u) # Absent /\ probe(u) # Absent /\ marker(u) # Absent
    /\ probe("u1").env.key = created["u1"].k
    /\ probe("u2").env.key = created["u2"].k
    /\ created["u1"].pw # created["u2"].pw

\* the row of a note id in a store (NoNote when there is none)
RowOf(store, id) ==
    IF \E i \in 1..Len(store) : store[i].id = id
    THEN store[CHOOSE i \in 1..Len(store) : store[i].id = id]
    ELSE NoNote

\* C24: the row a save of toggleArchiveNote puts into the store carries the
\* archived flag of the note that was saved, so that the note loadNotes
\* reads back after lock and unlock is archived as it was saved.
C24_RowCarriesArchived ==
    [][\A s \in SaveSlots :
         (/\ saves[s].pc = "encrypt"
          /\ saves[s].by = "archive"
          /\ saves'[s].pc = "saveNote"
          /\ saves'[s].ok)
         => RowOf(rows', saves[s].sub.acc.id).archived = saves[s].sub.acc.archived]_vars

\* C28: initialize and createUserVault never throw: every call returns a
\* boolean, and it returns false whenever a storage call threw, the persisted
\* salt could not be decoded, deriveKey or the cipher rejected, or the
\* persisted probe is no envelope.
C28_FailuresReturnFalse ==
    lastRet.op \in {"initialize", "createUserVault"}
    => /\ ~lastRet.threw
       /\ lastRet.result \in BOOLEAN
       /\ lastRet.failedAt # "none" => ~lastRet.result
       /\ (lastRet.path = "decrypt" /\ probe(lastRet.u).kind # "env") => ~lastRet.result

C28_Witness ==
    /\ lastRet.op = "initialize"
    /\ lastRet.failedAt = "salt"
    /\ salt(lastRet.u) = LineBreak
    /\ ~lastRet.result
    /\ probe(lastRet.u) = StrItem("true")

\* C23: after createUserVault(pw, u), encryptNote of a note and a decryptNote
\* of the result, the sequence clear, any number of initialize calls that
\* return false, initialize(pw, u) ends with the key of the vault in place:
\* initialize(pw, u) returns true unless one of its own steps fails, and the
\* decryptNote that follows returns the same note as before the clear.
C23_SequenceReadsBack ==
    /\ (/\ scenario.phase \in {"locked", "unlocked"}
        /\ lastRet.op = "initialize"
        /\ lastRet.pw = created["u1"].pw
        /\ lastRet.failedAt = "none")
       => lastRet.result /\ scenario.phase = "unlocked"
    /\ scenario.phase \in {"unlocked", "reread"}
       => key = created["u1"].k /\ validated
    /\ scenario.phase = "reread"
       => /\ noteOut = scenario.before
          /\ noteOut.kind = "note"
          /\ lastRet.op = "decryptNote" => ~lastRet.threw

C23_Witness ==
    /\ scenario.phase = "reread"
    /\ scenario.failed
    /\ lastRet.op = "decryptNote"
    /\ noteOut.kind = "note"
    /\ noteOut.note.content = noteIn.content
    /\ Truthy(noteIn.content)
    /\ noteEnc.content.kind = "env"

\* C25: at most one auto-save timer is pending, the one the last
\* scheduleAutoSave call set, and one is pending exactly while there are
\* calls since the last timer fired; the timer that fires calls
\* saveCurrentNote if a note is open and does nothing otherwise; and after a
\* burst of calls the timer does fire.
C25_AutoSaveDebounced ==
    /\ [](/\ Cardinality(timers) <= 1
          /\ timers \subseteq {autoSaveTimeout}
          /\ (timers = {}) = (unsaved = 0))
    /\ [][(timers # {} /\ timers' = {})
          => IF currentNote = "doc"
             THEN \E s \in SaveSlots : saves[s].pc = "idle" /\ saves'[s].pc # "idle"
             ELSE saves' = saves /\ rows' = rows /\ doc' = doc]_vars
    /\ (unsaved > 0) ~> (unsaved = 0)

C25_Witness ==
    /\ unsaved = 2
    /\ timers = {autoSaveTimeout}
    /\ autoSaveTimeout = 3
    /\ currentNote = "doc"
    /\ rows # <<>>

\* C31: whenever the vault marker of u is set, a salt and a probe are
\* persisted for u and the probe opens to the validation constant under the
\* key derived from the passphrase of the last createUserVault(u) that
\* returned true and the persisted salt.
C31_MarkedVaultOpens ==
    \A u \in Users :
        (marker(u) # Absent /\ HasVault(u))
        => /\ salt(u) # Absent
           /\ probe(u) # Absent
           /\ probe(u).kind = "env"
           /\ Opens(deriveKey(created[u].pw, DecodeSalt(salt(u)).salt), probe(u).env)
           /\ TextDecode(probe(u).env.data) = testMessage

\* C34: the envelopes of a note that encryptNote returned (title, content,
\* every tag) are all sealed under one and the same key, also when clear()
\* and an initialize ran while the call was suspended between two fields.
C34_NoteSealedUnderOneKey ==
    (lastRet.op = "encryptNote" /\ lastRet.result)
    => \E k \in NoteKeys : SealedUnder(noteEnc, k)

\* C35: decryptNote of the row that saveNote stored for encryptNote(n) and
\* getAllNotes read back returns a note with n's title, content and tags,
\* also when n's title, content or tag list is empty.
C35_StoreRoundTrip ==
    (lastRet.op = "decryptNote" /\ rows # <<>>)
    => /\ noteOut.kind = "note"
       /\ noteOut.note.title = noteIn.title
       /\ noteOut.note.content = noteIn.content
       /\ noteOut.note.tags = noteIn.tags

\* the row passes the pinned and the tags options
PassesOptions(r, o) ==
    /\ o.pinned = "true" => r.pinned
    /\ o.pinned = "false" => ~r.pinned
    /\ o.tags # <<>> => \E t \in {o.tags[i] : i \in 1..Len(o.tags)} :
                           t \in {r.tags[j] : j \in 1..Len(r.tags)}

\* C37: what getAllNotes resolves to holds only rows whose userId is the
\* StorageManager's userId or that have none, holds every stored row of
\* that userId that passes the pinned / tags options, and holds no row of
\* another userId; the row a saveNote puts carries the current userId.
C37_OnlyOwnNotes ==
    [][/\ found' # found =>
            LET res == {found'.rows[i] : i \in 1..Len(found'.rows)}
                all == {rows[j] : j \in 1..Len(rows)}
            IN  /\ \A r \in res : r.userId \in {storageUserId, "undefined"}
                /\ \A r \in all :
                      (r.userId = storageUserId /\ PassesOptions(r, found'.options))
                      => r \in res
                /\ \A r \in all :
                      r.userId \notin {storageUserId, "undefined"} => r \notin res
       /\ rows' # rows => rows'[1].userId = storageUserId]_vars

C37_Witness ==
    /\ found # NoOut
    /\ found.options.pinned = "true"
    /\ found.options.tags # <<>>
    /\ Len(found.rows) = 1
    /\ found.rows[1].userId = storageUserId
    /\ \E j \in 1..Len(rows) :
          /\ rows[j].userId \notin {storageUserId, "undefined"}
          /\ PassesOptions(rows[j], found.options)

\* C38: after applyCurrentFilter every entry of filteredNotes is an entry of
\* notes; an archived note is listed only under the filter 'archived'; under
\* 'archived' only archived notes are listed; under 'pinned' only pinned
\* notes that are not archived.
C38_FilteredWithinNotes ==
    LET shown == {filteredNotes[i] : i \in 1..Len(filteredNotes)}
    IN  /\ shown \subseteq {notes[i] : i \in 1..Len(notes)}
        /\ \A n \in shown : n.archived = "true" => view.currentFilter = "archived"
        /\ view.currentFilter = "archived" => \A n \in shown : n.archived = "true"
        /\ view.currentFilter = "pinned"
           => \A n \in shown : n.pinned /\ n.archived # "true"

C38_Witness ==
    /\ view.currentFilter = "archived"
    /\ view.searchQuery # <<>>
    /\ Len(filteredNotes) = 1
    /\ filteredNotes[1].archived = "true"
    /\ \E i \in 1..Len(notes) : notes[i].archived # "true"

\* C32: once deleteCurrentNote came to its end for a note, no row of the
\* store and no entry of this.notes carries the note's id (the note is not
\* created again here), whatever saves were pending or in flight meanwhile.
C32_DeletedStaysAbsent ==
    deletion.pc = "deleted"
    => /\ \A j \in 1..Len(rows) : rows[j].id # deletion.id
       /\ \A i \in 1..Len(notes) :
             Deref(notes[i], doc) # NoNote => Deref(notes[i], doc).id # deletion.id

\* C33: when the auto-save timer that the edits of a note scheduled fires,
\* a save of that note starts, also when the editor was closed meanwhile.
C33_AutoSaveSavesTheEdit ==
    [][(unsaved > 0 /\ unsaved' = 0)
       => \E s \in SaveSlots : saves[s].pc = "idle" /\ saves'[s].pc = "encrypt"]_vars

\* C36: this.notes never holds two entries with the same note id, whatever
\* the interleaving of saveCurrentNote and loadNotes.
C36_OneEntryPerId ==
    \A i, j \in 1..Len(notes) :
        (i < j /\ Deref(notes[i], doc) # NoNote /\ Deref(notes[j], doc) # NoNote)
        => Deref(notes[i], doc).id # Deref(notes[j], doc).id

\* the rating of the setup rule: the character classes are a-z, A-Z, 0-9 and
\* anything else
ClassesPresent(s) ==
    Cardinality({c \in {"lower", "upper", "digit", "other"} :
                   \E i \in 1..Len(s) :
                      LET cls == IF s[i] \in 97..122 THEN "lower"
                                 ELSE IF s[i] \in 65..90 THEN "upper"
                                 ELSE IF s[i] \in 48..57 THEN "digit"
                                 ELSE "other"
                      IN  cls = c})

RatedNotWeak(s, repeated) ==
    (IF Len(s) >= 12 THEN 2 ELSE IF Len(s) >= 8 THEN 1 ELSE 0)
       + ClassesPresent(s) - (IF repeated THEN 1 ELSE 0) >= 3

RepeatedThrice(s) == \E i \in 1..(Len(s) - 2) : s[i + 1] = s[i] /\ s[i + 2] = s[i]

RepeatedThriceOnOneLine(s) ==
    \E i \in 1..(Len(s) - 2) :
       s[i + 1] = s[i] /\ s[i + 2] = s[i] /\ s[i] \notin {10, 13, 8232, 8233}

NonBlank(s) == \E i \in 1..Len(s) : s[i] \notin WhiteSpace

\* the passphrase a step hands back or hands on: the one of the return it
\* leaves or, with no return, the one of the call in slot c
Submitted(c) == IF lastRet'.op = "none" THEN calls'[c].pw ELSE lastRet'.pw

\* what handleSetup does with the form (p, q); a handleSetup step with the
\* passphrase p leaves p as Submitted(c), so that only this p is looked at
SetupDecides(repeatedIn(_)) ==
    \A c \in Slots, p \in SetupStrings :
       \A q \in Confirmations(p) :
          (p = Submitted(c) /\ handleSetup(c, p, q))
          => IF /\ NonBlank(CodeUnitsOf(p))
                /\ p = q
                /\ RatedNotWeak(CodeUnitsOf(p), repeatedIn(CodeUnitsOf(p)))
             THEN /\ lastRet'.op # "handleSetup"
                  /\ \/ calls'[c].op = "createUserVault" /\ calls'[c].pw = p
                     \/ lastRet'.op = "createUserVault" /\ lastRet'.pw = p
             ELSE /\ lastRet'.op = "handleSetup"
                  /\ UNCHANGED <<localStorage, key, calls, isAuthenticated>>
                  /\ ~isAuthenticated'

\* C39: handleSetup starts createUserVault only when the passphrase is
\* non-blank, equals the confirmation and is not rated weak (strong for a
\* score of 5 or more, medium for 3 or 4, weak below 3; the score is 2 for a
\* length of 12 or more or 1 for a length of 8 or more, plus 1 per character
\* class present, minus 1 for a character repeated three times in a row); a
\* setup it rejects leaves localStorage (salt, probe and marker), the key
\* and the calls as they were and the app unauthenticated.
C39_SetupOnlyWhenRated == [][SetupDecides(RepeatedThrice)]_vars

\* C39 with the penalty as the pattern /(.)\1{2,}/ applies it, to a code
\* unit other than a line terminator standing three times in a row: the
\* rest of the rule is what handleSetup does.
C39_SetupOnlyWhenRatedOnOneLine == [][SetupDecides(RepeatedThriceOnOneLine)]_vars

\* C39: a passphrase that matched its confirmation was rejected as weak
\* because of its repeated character, and nothing was written
C39_Witness ==
    /\ lastRet.op = "handleSetup"
    /\ lastRet.failedAt = "weak"
    /\ RepeatedThrice(CodeUnitsOf(lastRet.pw))
    /\ RatedNotWeak(CodeUnitsOf(lastRet.pw), FALSE)
    /\ localStorage[testKey("u1")] # Absent
    /\ ~isAuthenticated

TypeOK ==
    /\ key \in {Null} \cup {deriveKey(p, s) : p \in Passphrases,
                                              s \in getRandomValues(SaltLen) \cup {<<0>>}}
    /\ \A c \in Slots : calls[c].pc \in {"idle", "derive", "encrypt", "decrypt"}
====
